---- MODULE Spec2Model ----
(***************************************************************************)
(* A model of the TreeView node registry and query engine of src/index.js: *)
(* the forest `data`, the three indexes, the identity allocator, the       *)
(* search filter, the paginator and the selection / expansion sets.        *)
(*                                                                         *)
(* Strings are sequences of one-character strings.  A node object is a     *)
(* record                                                                  *)
(*   obj   the identity of the JavaScript object (copies made by           *)
(*         filterNodes carry the negated identity of their original)       *)
(*   keys  the own property names in insertion order                       *)
(*   id    the caller's `id` (<<>> when absent or empty, both falsy)       *)
(*   name  the value of the display field                                  *)
(*   iid   the `_internalId` (<<>> when absent)                            *)
(*   kids  the `children` array (<<>> when absent or empty)                *)
(***************************************************************************)
EXTENDS Integers, Sequences, FiniteSets, TLC

VARIABLES data, filteredData, paginatedData, searchTerm,
          currentPage, totalPages, pageSize,
          selectedNodes, expandedNodes,
          nodeDataMap, internalIdMap, nodeToInternalIdMap,
          usedInternalIds, internalIdCounter,
          multiSelect, showCheckboxes,
          nextObj, everIndexed, issued, last, mutations

\* The first lines are the fields of a TreeView.  The last line records what
\* the program does not store:
\*   nextObj      the identity the next new object gets
\*   everIndexed  for every internal id, the objects internalIdMap ever
\*                mapped it to
\*   issued       the calls of generateInternalId in order: the value
\*                returned and whether usedInternalIds held it before
\*   last         the last call and its outcome
\*   mutations    the number of mutator calls the run may still make

vars == <<data, filteredData, paginatedData, searchTerm,
          currentPage, totalPages, pageSize,
          selectedNodes, expandedNodes,
          nodeDataMap, internalIdMap, nodeToInternalIdMap,
          usedInternalIds, internalIdCounter,
          multiSelect, showCheckboxes,
          nextObj, everIndexed, issued, last, mutations>>

(***************************************************************************)
(* Bounds of the exploration.                                              *)
(***************************************************************************)
\* The most nodes a forest may hold after an insertion.
MaxNodes == 6

\* The mutator calls of a run of SpecRegistry.
MaxMutations == 2

\* The mutator calls of a run of Spec and of SpecView.
MaxViewMutations == 1

\* Keys selected by click in one behaviour of SpecClick.
MaxSelected == 2

\* The largest page number handed to goToPage.
MaxPageArg == 4

(***************************************************************************)
(* Program constants.                                                      *)
(***************************************************************************)
maxAttempts == 10000

KeyPrefixLen == 10

showPagination == TRUE

DefaultPageSize == 10

(***************************************************************************)
(* Generic helpers.                                                        *)
(***************************************************************************)
Max(a, b) == IF a > b THEN a ELSE b

Min(a, b) == IF a < b THEN a ELSE b

Ceil(a, b) == (a + b - 1) \div b

Take(s, n) == SubSeq(s, 1, Min(n, Len(s)))

EmptyMap == [x \in {} |-> <<>>]

Put(f, k, v) == [x \in DOMAIN f \cup {k} |-> IF x = k THEN v ELSE f[x]]

Drop(f, k) == [x \in DOMAIN f \ {k} |-> f[x]]

Range(s) == {s[i] : i \in DOMAIN s}

IndexOf(s, x) == IF \E i \in DOMAIN s : s[i] = x
                 THEN CHOOSE i \in DOMAIN s : s[i] = x /\ \A j \in 1..(i-1) : s[j] # x
                 ELSE 0

\* Fault variant: splice one place too early.
InsertEarly(s, i, x) ==
  SubSeq(s, 1, Max(i - 1, 0)) \o <<x>> \o SubSeq(s, Max(i - 1, 0) + 1, Len(s))

InsertAt(s, i, x) == SubSeq(s, 1, i) \o <<x>> \o SubSeq(s, i + 1, Len(s))

(***************************************************************************)
(* Strings.                                                                *)
(***************************************************************************)
NoId == <<>>

NoIid == <<>>

toLowerCase(s) ==
  [i \in DOMAIN s |-> CASE s[i] = "A" -> "a"
                        [] s[i] = "B" -> "b"
                        [] OTHER -> s[i]]

\* String.prototype.includes
includes(s, t) ==
  \E i \in 0..(Len(s) - Len(t)) : SubSeq(s, i + 1, i + Len(t)) = t

IsAlnum(c) == c \notin {",", "_", " "}

\* replace(/[^a-zA-Z0-9]/g, '')
StripNonAlnum(s) == SelectSeq(s, IsAlnum)

DigitChar(n) ==
  CASE n = 0 -> "0" [] n = 1 -> "1" [] n = 2 -> "2" [] n = 3 -> "3"
    [] n = 4 -> "4" [] n = 5 -> "5" [] n = 6 -> "6" [] n = 7 -> "7"
    [] n = 8 -> "8" [] OTHER -> "9"

RECURSIVE Decimal(_)
\* Number to string in base ten.
Decimal(n) ==
  IF n < 10 THEN <<DigitChar(n)>> ELSE Decimal(n \div 10) \o <<DigitChar(n % 10)>>

\* The text of an internal id `${counter}_${entropy}`, where entropy stands
\* for the `${Date.now()}_${random}` part.
IidText(iid) == Decimal(iid[1]) \o <<"_">> \o Decimal(iid[2])

\* A property `children` that holds undefined: its name stays in the key
\* order, JSON.stringify skips it, and every test of node.children is false.
UndefChildren == "children=undefined"

HasKey(keys, k) == \E i \in DOMAIN keys : keys[i] = k

\* The key order after `o.children = <array>`.
WithChildren(keys) ==
  IF HasKey(keys, "children") THEN keys
  ELSE IF HasKey(keys, UndefChildren)
       THEN [i \in DOMAIN keys |-> IF keys[i] = UndefChildren THEN "children" ELSE keys[i]]
       ELSE Append(keys, "children")

\* The key order after `o[k] = v` for a key k.
WithKey(keys, k) == IF HasKey(keys, k) THEN keys ELSE Append(keys, k)

RECURSIVE Flat(_)
\* The nodes of a forest in depth-first pre-order.
Flat(nodes) ==
  IF nodes = <<>> THEN <<>>
  ELSE <<Head(nodes)>> \o Flat(Head(nodes).kids) \o Flat(Tail(nodes))

NodesOf(nodes) == Range(Flat(nodes))

\* typeof r === 'object' && r !== null
IsObject(r) == "null" \notin DOMAIN r

HasKids(node) == Len(node.kids) > 0

\* A `children` that holds a non-empty string instead of an array: it passes
\* the test `node.children && node.children.length > 0` and has no forEach.
HasTextChildren(node) == "childrenText" \in DOMAIN node

RECURSIVE StringifyKeys(_, _)
RECURSIVE StringifyNodes(_)
\* JSON.stringify(node) with every non-alphanumeric character removed:
\* the property names and values in insertion order.
StringifyKeys(node, ks) ==
  IF ks = <<>> THEN <<>>
  ELSE LET k == Head(ks)
           part == CASE k = "id" -> <<"i", "d">> \o StripNonAlnum(node.id)
                     [] k = "name" -> <<"n", "a", "m", "e">> \o StripNonAlnum(node.name)
                     [] k = "children" ->
                          <<"c", "h", "i", "l", "d", "r", "e", "n">> \o StringifyNodes(node.kids)
                     [] k = UndefChildren -> <<>>
                     [] OTHER ->
                          <<"i", "n", "t", "e", "r", "n", "a", "l", "I", "d">>
                             \o StripNonAlnum(IidText(node.iid))
       IN part \o StringifyKeys(node, Tail(ks))

StringifyNodes(nodes) ==
  IF nodes = <<>> THEN <<>>
  ELSE StringifyKeys(Head(nodes), Head(nodes).keys) \o StringifyNodes(Tail(nodes))

\* generateNodeId: node.id || `node_${...substring(0, 10)}`
generateNodeId(node) ==
  IF node.id # NoId THEN node.id
  ELSE <<"n", "o", "d", "e", "_">> \o Take(StringifyKeys(node, node.keys), KeyPrefixLen)

\* The expression `node.id || this.generateNodeId(node)` used at every site
\* that needs a natural key.
NodeKey(node) == IF node.id # NoId THEN node.id ELSE generateNodeId(node)

(***************************************************************************)
(* Identity allocator.                                                     *)
(***************************************************************************)
\* Fault variant: the loop of generateInternalId without its test of
\* usedInternalIds.
generateInternalIdUnchecked(ctr, used, e, attempts) ==
  [ok |-> TRUE, id |-> <<ctr + 1, e>>, ctr |-> ctr + 1, used |-> used \cup {<<ctr + 1, e>>}]

RECURSIVE generateInternalIdLoop(_, _, _, _)
generateInternalIdLoop(ctr, used, e, attempts) ==
  LET ctr1 == ctr + 1
      internalId == <<ctr1, e>>
      attempts1 == attempts + 1
  IN IF attempts1 > maxAttempts
     THEN [ok |-> FALSE, id |-> NoIid, ctr |-> ctr1, used |-> used]
     ELSE IF internalId \in used
          THEN generateInternalIdLoop(ctr1, used, e, attempts1)
          ELSE [ok |-> TRUE, id |-> internalId, ctr |-> ctr1,
                used |-> used \cup {internalId}]

generateInternalId(ctr, used, e) == generateInternalIdLoop(ctr, used, e, 0)

\* One call of generateInternalId, for the record of calls: the value it
\* returned and whether usedInternalIds held that value when it was called.
Call(g, usedBefore) == [id |-> g.id, wasUsed |-> g.id \in usedBefore]

(***************************************************************************)
(* Node registry.                                                          *)
(***************************************************************************)
\* node._internalId = internalId : a new property goes last.
SetIid(node, internalId) ==
  [node EXCEPT !.iid = internalId, !.keys = WithKey(@, "_internalId")]

RECURSIVE mapNodes(_, _, _)
\* st = [ndm, iim, n2i, used, ctr, ok, calls]; returns the nodes as mutated
\* and the registry state after the traversal.  calls lists the calls of
\* generateInternalId made so far in the running operation.  ok turns false
\* where the traversal throws: in generateInternalId, at `node.id` of a null
\* element, at `forEach` of a children value that is a string; what was
\* written up to there stays and nothing after it is visited.
mapNodes(nodes, st, e) ==
  IF nodes = <<>> \/ ~st.ok THEN [nodes |-> nodes, st |-> st]
  ELSE IF ~IsObject(Head(nodes)) THEN [nodes |-> nodes, st |-> [st EXCEPT !.ok = FALSE]]
  ELSE LET node == Head(nodes)
           nodeId == NodeKey(node)
           fresh == node.iid = NoIid \/ node.iid \in DOMAIN st.iim
           g == generateInternalId(st.ctr, st.used, e)
           internalId == IF fresh THEN g.id ELSE node.iid
           node1 == IF fresh THEN SetIid(node, internalId) ELSE node
           st1 == [ndm |-> Put(st.ndm, nodeId, node.obj),
                   iim |-> Put(st.iim, internalId, node.obj),
                   n2i |-> Put(st.n2i, node.obj, internalId),
                   used |-> IF fresh THEN g.used ELSE st.used \cup {node.iid},
                   ctr |-> IF fresh THEN g.ctr ELSE st.ctr,
                   ok |-> st.ok /\ (fresh => g.ok),
                   calls |-> IF fresh THEN Append(st.calls, Call(g, st.used))
                             ELSE st.calls]
           sub == IF HasTextChildren(node1)
                  THEN [nodes |-> node1.kids, st |-> [st1 EXCEPT !.ok = FALSE]]
                  ELSE IF HasKids(node1) THEN mapNodes(node1.kids, st1, e)
                  ELSE [nodes |-> node1.kids, st |-> st1]
           rest == mapNodes(Tail(nodes), sub.st, e)
       IN [nodes |-> <<[node1 EXCEPT !.kids = sub.nodes]>> \o rest.nodes,
           st |-> rest.st]

\* buildNodeDataMap: clear the three maps, then index the forest.
buildNodeDataMap(nodes, used, ctr, calls, e) ==
  mapNodes(nodes, [ndm |-> EmptyMap, iim |-> EmptyMap, n2i |-> EmptyMap,
                   used |-> used, ctr |-> ctr, ok |-> TRUE, calls |-> calls], e)

(***************************************************************************)
(* Paginator.                                                              *)
(***************************************************************************)
\* Fault variant: calculatePagination without the two clamps of currentPage.
calculatePaginationUnclamped(fd, ps, cp) ==
  [totalPages |-> Max(1, Ceil(Len(fd), ps)), currentPage |-> cp]

calculatePagination(fd, ps, cp) ==
  LET tp == Max(1, Ceil(Len(fd), ps))
      cp1 == IF cp > tp THEN tp ELSE cp
      cp2 == IF cp1 < 1 THEN 1 ELSE cp1
  IN [totalPages |-> tp, currentPage |-> cp2]

\* Array.prototype.slice(startIndex, endIndex) on 0-based indexes.
slice(s, startIndex, endIndex) == SubSeq(s, startIndex + 1, Min(endIndex, Len(s)))

\* getPaginatedData as called by updateTreeContent: the page, the clamped
\* cursor and the page count.  pd and tp are the values held before.
getPaginatedData(fd, ps, cp, pd, tp) ==
  IF ~showPagination
  THEN [currentPage |-> cp, totalPages |-> tp, paginatedData |-> pd, shown |-> fd]
  ELSE LET c == calculatePagination(fd, ps, cp)
           startIndex == (c.currentPage - 1) * ps
           endIndex == startIndex + ps
           page == slice(fd, startIndex, endIndex)
       IN [currentPage |-> c.currentPage, totalPages |-> c.totalPages,
           paginatedData |-> page, shown |-> page]

(***************************************************************************)
(* Query engine.                                                           *)
(***************************************************************************)
\* { ...node, children: filteredChildren } : a new object.
FilterCopy(node, filteredChildren) ==
  [node EXCEPT !.obj = 0 - node.obj,
               !.keys = WithChildren(@),
               !.kids = filteredChildren]

RECURSIVE filterNodesOwnMatch(_, _)
\* Fault variant: filterNodes keeping a node only when the node itself
\* matches.
filterNodesOwnMatch(nodes, term) ==
  IF term = <<>> THEN nodes
  ELSE IF nodes = <<>> THEN <<>>
  ELSE LET node == Head(nodes)
           nodeMatches == includes(toLowerCase(node.name), term)
           filteredChildren == IF HasKids(node) THEN filterNodesOwnMatch(node.kids, term)
                               ELSE <<>>
           rest == filterNodesOwnMatch(Tail(nodes), term)
       IN IF nodeMatches
          THEN <<FilterCopy(node, filteredChildren)>> \o rest
          ELSE rest

RECURSIVE filterNodesNoShortcut(_, _)
\* Fault variant: filterNodes without `if (!searchTerm) return nodes`.
filterNodesNoShortcut(nodes, term) ==
  IF nodes = <<>> THEN <<>>
  ELSE LET node == Head(nodes)
           nodeMatches == includes(toLowerCase(node.name), term)
           filteredChildren == IF HasKids(node) THEN filterNodesNoShortcut(node.kids, term)
                               ELSE <<>>
           rest == filterNodesNoShortcut(Tail(nodes), term)
       IN IF nodeMatches \/ Len(filteredChildren) > 0
          THEN <<FilterCopy(node, filteredChildren)>> \o rest
          ELSE rest

RECURSIVE filterNodes(_, _)
filterNodes(nodes, term) ==
  IF term = <<>> THEN nodes
  ELSE IF nodes = <<>> THEN <<>>
  ELSE LET node == Head(nodes)
           nodeMatches == includes(toLowerCase(node.name), term)
           filteredChildren == IF HasKids(node) THEN filterNodes(node.kids, term)
                               ELSE <<>>
           rest == filterNodes(Tail(nodes), term)
       IN IF nodeMatches \/ Len(filteredChildren) > 0
          THEN <<FilterCopy(node, filteredChildren)>> \o rest
          ELSE rest

RECURSIVE collectNodeIds(_)
\* collectNodeIds of autoExpandSearchResults: the keys of a forest in order.
collectNodeIds(nodes) ==
  IF nodes = <<>> THEN <<>>
  ELSE <<NodeKey(Head(nodes))>>
         \o (IF HasKids(Head(nodes)) THEN collectNodeIds(Head(nodes).kids) ELSE <<>>)
         \o collectNodeIds(Tail(nodes))

\* Fault variant: autoExpandSearchResults without the descent of
\* collectNodeIds into the children.
autoExpandTopLevel(fd, expanded) ==
  expanded \cup {NodeKey(fd[i]) : i \in DOMAIN fd}

autoExpandSearchResults(fd, expanded) == expanded \cup Range(collectNodeIds(fd))

(***************************************************************************)
(* Inputs: the records and forests a caller hands in.  A caller's record   *)
(* has no identity yet; Alloc gives its objects the next free identities   *)
(* in pre-order.                                                           *)
(***************************************************************************)
Rec(keys, id, name, iid, kids) ==
  [obj |-> 0, keys |-> keys, id |-> id, name |-> name, iid |-> iid, kids |-> kids]

Null == [obj |-> 0, keys |-> <<>>, id |-> NoId, name |-> <<>>, iid |-> NoIid,
         kids |-> <<>>, null |-> TRUE]

RECURSIVE Size(_)
Size(nodes) ==
  IF nodes = <<>> THEN 0 ELSE 1 + Size(Head(nodes).kids) + Size(Tail(nodes))

RECURSIVE Alloc(_, _)
Alloc(nodes, next) ==
  IF nodes = <<>> THEN <<>>
  ELSE LET node == Head(nodes)
           kids == Alloc(node.kids, next + 1)
       IN <<[node EXCEPT !.obj = next, !.kids = kids]>>
            \o Alloc(Tail(nodes), next + 1 + Size(node.kids))

\* [{id:'x', name:'A', children:[{id:'y', name:'ab', children:[{name:'B'}]}]},
\*  {name:'b'}]
ForestA ==
  << Rec(<<"id", "name", "children">>, <<"x">>, <<"A">>, NoIid,
         << Rec(<<"id", "name", "children">>, <<"y">>, <<"a", "b">>, NoIid,
                << Rec(<<"name">>, NoId, <<"B">>, NoIid, <<>>) >>) >>),
     Rec(<<"name">>, NoId, <<"b">>, NoIid, <<>>) >>

\* [{name:'aB', _internalId:'2_0'}, {id:'x', name:'A'}, {id:'x', name:'b'}]
ForestB ==
  << Rec(<<"name", "_internalId">>, NoId, <<"a", "B">>, <<2, 0>>, <<>>),
     Rec(<<"id", "name">>, <<"x">>, <<"A">>, NoIid, <<>>),
     Rec(<<"id", "name">>, <<"x">>, <<"b">>, NoIid, <<>>) >>

Forests == {ForestA, ForestB}

\* [{name:'A,b', children:[{name:'a,', children:[{name:'B'}]},
\*                         {name:'b', children:[]}]}, {name:',b'}]
ForestC ==
  << Rec(<<"name", "children">>, NoId, <<"A", ",", "b">>, NoIid,
         << Rec(<<"name", "children">>, NoId, <<"a", ",">>, NoIid,
                << Rec(<<"name">>, NoId, <<"B">>, NoIid, <<>>) >>),
            Rec(<<"name", "children">>, NoId, <<"b">>, NoIid, <<>>) >>),
     Rec(<<"name">>, NoId, <<",", "b">>, NoIid, <<>>) >>

\* {name:'A'}, {id:'x', name:'ab', _internalId:'1_0'},
\* {name:'b', children:[{id:'y', name:'A', _internalId:'1_0'}]}, null
Records ==
  { Rec(<<"name">>, NoId, <<"A">>, NoIid, <<>>),
    Rec(<<"id", "name", "_internalId">>, <<"x">>, <<"a", "b">>, <<1, 0>>, <<>>),
    Rec(<<"name", "children">>, NoId, <<"b">>, NoIid,
        << Rec(<<"id", "name", "_internalId">>, <<"y">>, <<"A">>, <<1, 0>>, <<>>) >>),
    Null }

\* {name:'b'}, {id:'y'}, {children:[], _internalId:'9_9'}, null
Partials ==
  { Rec(<<"name">>, NoId, <<"b">>, NoIid, <<>>),
    Rec(<<"id">>, <<"y">>, <<>>, NoIid, <<>>),
    Rec(<<"children", "_internalId">>, NoId, <<>>, <<9, 9>>, <<>>),
    Null }

Terms == {<<>>, <<"a", "B">>, <<"b">>}

Positions == {"first", "last", "before"}

PageSizes == {0, 1, 2}

\* What `${Date.now()}_${Math.random()...}` may yield: the calls of
\* generateInternalId of one operation draw the same token.
Entropies == {0, 1}

RootSentinel == <<0, 0>>

UnknownIid == <<8, 8>>

(***************************************************************************)
(* Tree helpers of the mutator.                                            *)
(***************************************************************************)
\* The object with identity o, as it now is in the forest.
NodeAt(nodes, o) == CHOOSE n \in NodesOf(nodes) : n.obj = o

RECURSIVE SetNode(_, _, _)
\* The forest after object o was mutated in place to the value new.
SetNode(nodes, o, new) ==
  IF nodes = <<>> THEN <<>>
  ELSE LET node == Head(nodes)
       IN IF node.obj = o THEN <<new>> \o Tail(nodes)
          ELSE <<[node EXCEPT !.kids = SetNode(node.kids, o, new)]>>
                 \o SetNode(Tail(nodes), o, new)

RECURSIVE removeFromNodesTopLevel(_, _)
\* Fault variant: removeFromNodes without the descent into the children.
removeFromNodesTopLevel(nodes, target) ==
  IF nodes = <<>> THEN [removed |-> FALSE, nodes |-> <<>>]
  ELSE LET rest == removeFromNodesTopLevel(Tail(nodes), target)
       IN IF Head(nodes).obj = target THEN [removed |-> TRUE, nodes |-> Tail(nodes)]
          ELSE [removed |-> rest.removed, nodes |-> <<Head(nodes)>> \o rest.nodes]

RECURSIVE removeFromNodes(_, _)
\* removeFromNodes of removeNodeByInternalId: splice out the first
\* occurrence of the target found depth first.
removeFromNodes(nodes, target) ==
  IF nodes = <<>> THEN [removed |-> FALSE, nodes |-> <<>>]
  ELSE LET node == Head(nodes)
           sub == IF HasKids(node) THEN removeFromNodes(node.kids, target)
                  ELSE [removed |-> FALSE, nodes |-> node.kids]
           rest == removeFromNodes(Tail(nodes), target)
       IN IF node.obj = target THEN [removed |-> TRUE, nodes |-> Tail(nodes)]
          ELSE IF sub.removed
               THEN [removed |-> TRUE,
                     nodes |-> <<[node EXCEPT !.kids = sub.nodes]>> \o Tail(nodes)]
               ELSE [removed |-> rest.removed, nodes |-> <<node>> \o rest.nodes]

RECURSIVE findParent(_, _, _)
\* findParent of findParentNode: the identity of the parent object, 0 for null.
findParent(nodes, target, parent) ==
  IF nodes = <<>> THEN 0
  ELSE LET node == Head(nodes)
           result == IF HasKids(node) THEN findParent(node.kids, target, node.obj) ELSE 0
       IN IF node.obj = target THEN parent
          ELSE IF result # 0 THEN result
          ELSE findParent(Tail(nodes), target, parent)

findParentNode(nodes, target) == findParent(nodes, target, 0)

\* Fault variant: cleanupNodeMappings without the descent into the children.
cleanupNodeOnly(node, c) ==
  LET nodeId == NodeKey(node)
  IN [ndm |-> Drop(c.ndm, nodeId),
      iim |-> Drop(c.iim, node.iid),
      n2i |-> Drop(c.n2i, node.obj),
      sel |-> c.sel \ {nodeId},
      exp |-> c.exp \ {nodeId}]

RECURSIVE cleanupNodeMappings(_, _)
\* c = [ndm, iim, n2i, sel, exp]
cleanupNodeMappings(node, c) ==
  LET nodeId == NodeKey(node)
      c1 == [ndm |-> Drop(c.ndm, nodeId),
             iim |-> Drop(c.iim, node.iid),
             n2i |-> Drop(c.n2i, node.obj),
             sel |-> c.sel \ {nodeId},
             exp |-> c.exp \ {nodeId}]
      F[i \in 0..Len(node.kids)] ==
        IF i = 0 THEN c1 ELSE cleanupNodeMappings(node.kids[i], F[i - 1])
  IN F[Len(node.kids)]

\* Fault variant: unshift in every case of the switch.
addToListFront(list, newNode, position) == <<newNode>> \o list

\* Fault variant: the switch without its case 'first'.
addToListAppending(list, newNode, position) == Append(list, newNode)

\* switch (position) of addToRootLevel and of addToParentNode.
addToList(list, newNode, position) ==
  IF position = "first" THEN <<newNode>> \o list ELSE Append(list, newNode)

addToRootLevel(nodes, newNode, position) == addToList(nodes, newNode, position)

\* addToParentNode: a missing children array is created first.
addToParentNode(parentNode, newNode, position) ==
  [parentNode EXCEPT !.keys = WithChildren(@),
                     !.kids = addToList(@, newNode, position)]

\* { ...newNodeData } with newNode._internalId = internalId, as a new object
\* whose children are the caller's objects.
NewNode(rec, internalId, next) ==
  SetIid([rec EXCEPT !.obj = next, !.kids = Alloc(rec.kids, next + 1)], internalId)

\* Fault variant: Object.assign(node, updatedData) without the two
\* assignments that restore children and _internalId.
AssignAll(node, upd) ==
  LET added == SelectSeq(upd.keys, LAMBDA k : ~HasKey(node.keys, k))
  IN [node EXCEPT !.keys = node.keys \o added,
                  !.id = IF HasKey(upd.keys, "id") THEN upd.id ELSE @,
                  !.name = IF HasKey(upd.keys, "name") THEN upd.name ELSE @,
                  !.kids = IF HasKey(upd.keys, "children") THEN upd.kids ELSE @,
                  !.iid = IF HasKey(upd.keys, "_internalId") THEN upd.iid ELSE @]

\* const children = node.children; Object.assign(node, updatedData);
\* node.children = children; node._internalId = originalInternalId
\* Object.assign appends the properties the node lacks in the order of
\* updatedData; the two assignments after it restore the values, and leave a
\* `children` holding undefined on a node that had no children array.
AssignOnto(node, upd) ==
  LET hadArray == HasKey(node.keys, "children")
      name(k) == IF k = "children" /\ ~hadArray THEN UndefChildren ELSE k
      added == SelectSeq(upd.keys, LAMBDA k : ~HasKey(node.keys, name(k)))
      assigned == node.keys \o [i \in DOMAIN added |-> name(added[i])]
  IN [node EXCEPT !.keys = IF hadArray THEN assigned ELSE WithKey(assigned, UndefChildren),
                  !.id = IF HasKey(upd.keys, "id") THEN upd.id ELSE @,
                  !.name = IF HasKey(upd.keys, "name") THEN upd.name ELSE @]

Remember(ever, iim) ==
  [i \in DOMAIN ever \cup DOMAIN iim |->
     (IF i \in DOMAIN ever THEN ever[i] ELSE {})
       \cup (IF i \in DOMAIN iim THEN {iim[i]} ELSE {})]

(***************************************************************************)
(* The state after construction (constructor, lines 19-59): the caller's   *)
(* forest is indexed and the first page rendered.                          *)
(***************************************************************************)
RECURSIVE Shape(_)
\* The node sequence of a forest: which objects, in which order, at every
\* level.
Shape(nodes) == [i \in DOMAIN nodes |-> <<nodes[i].obj, Shape(nodes[i].kids)>>]

\* The last call: the operation, its arguments where a property refers to
\* them (for addNode with the node sequence of the forest before the call,
\* for removeNodeByInternalId with whether the id is the one the addNode
\* just before it returned),
\* and what it returned (for an operation that returns nothing: whether it
\* warned, or the node it handed to its callback).
Op(op, arg, ret) == [op |-> op, arg |-> arg, ret |-> ret]

\* The constructor called with forest f, page size ps and the two selection
\* options, drawing entropy e; budget is the number of mutator calls the run
\* may make.
Construct(f, ps, ms, cb, e, budget) ==
    LET nodes == Alloc(f, 1)
        b == buildNodeDataMap(nodes, {}, 0, <<>>, e)
        r == getPaginatedData(b.nodes, ps, 1, <<>>, 1)
    IN /\ data = b.nodes
       /\ filteredData = b.nodes
       /\ paginatedData = r.paginatedData
       /\ searchTerm = <<>>
       /\ currentPage = r.currentPage
       /\ totalPages = r.totalPages
       /\ pageSize = ps
       /\ selectedNodes = {}
       /\ expandedNodes = {}
       /\ nodeDataMap = b.st.ndm
       /\ internalIdMap = b.st.iim
       /\ nodeToInternalIdMap = b.st.n2i
       /\ usedInternalIds = b.st.used
       /\ internalIdCounter = b.st.ctr
       /\ multiSelect = ms
       /\ showCheckboxes = cb
       /\ nextObj = 1 + Size(f)
       /\ everIndexed = Remember(EmptyMap, b.st.iim)
       /\ issued = b.st.calls
       /\ last = Op("constructor", <<>>, <<>>)
       /\ mutations = budget

Init ==
  \E f \in Forests, ps \in PageSizes \ {0}, ms \in BOOLEAN, cb \in BOOLEAN,
     e \in Entropies :
    Construct(f, ps, ms, cb, e, MaxViewMutations)

\* Construction with the default options pageSize = 10, multiSelect = false
\* and showCheckboxes = false (lines 16, 11 and 15).
InitRegistry ==
  \E f \in Forests, e \in Entropies :
    Construct(f, DefaultPageSize, FALSE, FALSE, e, MaxMutations)

\* Construction with a small page size and the default selection options.
InitView ==
  \E f \in Forests, ps \in PageSizes \ {0}, e \in Entropies :
    Construct(f, ps, FALSE, FALSE, e, MaxViewMutations)

(***************************************************************************)
(* Steps shared by the handlers.                                           *)
(***************************************************************************)
\* updateTreeContent: getPaginatedData, createTree, updatePaginationControls.
updateTreeContent(fd, ps, cp) ==
  LET r == getPaginatedData(fd, ps, cp, paginatedData, totalPages)
      c == IF showPagination THEN calculatePagination(fd, ps, r.currentPage)
           ELSE [totalPages |-> r.totalPages, currentPage |-> r.currentPage]
  IN /\ currentPage' = c.currentPage
     /\ totalPages' = c.totalPages
     /\ paginatedData' = r.paginatedData

SetRegistry(st) ==
  /\ nodeDataMap' = st.ndm
  /\ internalIdMap' = st.iim
  /\ nodeToInternalIdMap' = st.n2i
  /\ usedInternalIds' = st.used
  /\ internalIdCounter' = st.ctr
  /\ everIndexed' = Remember(everIndexed, st.iim)
  /\ issued' = issued \o st.calls

registry == <<nodeDataMap, internalIdMap, nodeToInternalIdMap, usedInternalIds,
              internalIdCounter, everIndexed, issued>>

config == <<multiSelect, showCheckboxes>>

view == <<filteredData, paginatedData, currentPage, totalPages>>

\* refreshTree: filterNodes runs before buildNodeDataMap, so with a search
\* term the copies in filteredData are those of the nodes as they were before
\* the rebuild; without one filteredData is the array `data` itself.
refreshTree(nodes, used, ctr, calls, e) ==
  LET fd == filterNodes(nodes, searchTerm)
      b == buildNodeDataMap(nodes, used, ctr, calls, e)
  IN /\ b.st.ok
     /\ data' = b.nodes
     /\ filteredData' = (IF searchTerm = <<>> THEN b.nodes ELSE fd)
     /\ SetRegistry(b.st)
     /\ updateTreeContent(IF searchTerm = <<>> THEN b.nodes ELSE fd, pageSize, currentPage)

\* Map.get on internalIdMap: the identity of the object, 0 for undefined.
Lookup(internalId) ==
  IF internalId \in DOMAIN internalIdMap THEN internalIdMap[internalId] ELSE 0

KnownIids == DOMAIN internalIdMap \cup {UnknownIid}

(***************************************************************************)
(* Paginator handlers.                                                     *)
(***************************************************************************)
\* Fault variant: setPageSize without `this.currentPage = 1`.
SetPageSizeKeepingPage(newPageSize) ==
  /\ last' = Op("setPageSize", newPageSize, IF newPageSize <= 0 THEN "warn" ELSE "ok")
  /\ IF newPageSize <= 0
     THEN UNCHANGED <<pageSize, view>>
     ELSE /\ pageSize' = newPageSize
          /\ updateTreeContent(filteredData, newPageSize, currentPage)
          /\ UNCHANGED filteredData
  /\ UNCHANGED <<data, searchTerm, selectedNodes, expandedNodes, registry, config, nextObj, mutations>>

SetPageSize(newPageSize) ==
  /\ last' = Op("setPageSize", newPageSize, IF newPageSize <= 0 THEN "warn" ELSE "ok")
  /\ IF newPageSize <= 0
     THEN UNCHANGED <<pageSize, view>>
     ELSE /\ pageSize' = newPageSize
          /\ updateTreeContent(filteredData, newPageSize, 1)
          /\ UNCHANGED filteredData
  /\ UNCHANGED <<data, searchTerm, selectedNodes, expandedNodes, registry, config, nextObj, mutations>>

\* Fault variant: goToPage clamping the requested page instead of rejecting it.
GoToPageClamping(page) ==
  /\ last' = Op("goToPage", page, IF page < 1 \/ page > totalPages THEN "warn" ELSE "ok")
  /\ updateTreeContent(filteredData, pageSize, page)
  /\ UNCHANGED <<data, filteredData, searchTerm, pageSize, selectedNodes, expandedNodes,
                 registry, config, nextObj, mutations>>

GoToPage(page) ==
  /\ last' = Op("goToPage", page, IF page < 1 \/ page > totalPages THEN "warn" ELSE "ok")
  /\ IF page < 1 \/ page > totalPages
     THEN UNCHANGED view
     ELSE /\ updateTreeContent(filteredData, pageSize, page)
          /\ UNCHANGED filteredData
  /\ UNCHANGED <<data, searchTerm, pageSize, selectedNodes, expandedNodes, registry,
                 config, nextObj, mutations>>

NextPage ==
  /\ last' = Op("nextPage", <<>>, "ok")
  /\ IF currentPage < totalPages
     THEN /\ updateTreeContent(filteredData, pageSize, currentPage + 1)
          /\ UNCHANGED filteredData
     ELSE UNCHANGED view
  /\ UNCHANGED <<data, searchTerm, pageSize, selectedNodes, expandedNodes, registry,
                 config, nextObj, mutations>>

PreviousPage ==
  /\ last' = Op("previousPage", <<>>, "ok")
  /\ IF currentPage > 1
     THEN /\ updateTreeContent(filteredData, pageSize, currentPage - 1)
          /\ UNCHANGED filteredData
     ELSE UNCHANGED view
  /\ UNCHANGED <<data, searchTerm, pageSize, selectedNodes, expandedNodes, registry,
                 config, nextObj, mutations>>

FirstPage ==
  /\ last' = Op("firstPage", <<>>, "ok")
  /\ updateTreeContent(filteredData, pageSize, 1)
  /\ UNCHANGED <<data, filteredData, searchTerm, pageSize, selectedNodes, expandedNodes,
                 registry, config, nextObj, mutations>>

LastPage ==
  /\ last' = Op("lastPage", <<>>, "ok")
  /\ updateTreeContent(filteredData, pageSize, totalPages)
  /\ UNCHANGED <<data, filteredData, searchTerm, pageSize, selectedNodes, expandedNodes,
                 registry, config, nextObj, mutations>>

(***************************************************************************)
(* Search.                                                                 *)
(***************************************************************************)
HandleSearch(term) ==
  LET st == toLowerCase(term)
      fd == filterNodes(data, st)
  IN /\ last' = Op("handleSearch", <<>>, "ok")
     /\ searchTerm' = st
     /\ filteredData' = fd
     /\ expandedNodes' = (IF st # <<>> THEN autoExpandSearchResults(fd, expandedNodes)
                          ELSE expandedNodes)
     /\ updateTreeContent(fd, pageSize, 1)
     /\ UNCHANGED <<data, pageSize, selectedNodes, registry, config, nextObj, mutations>>

(***************************************************************************)
(* Tree mutator.                                                           *)
(***************************************************************************)
\* One more call of the mutator, of those the run may make.
CountMutation == mutations > 0 /\ mutations' = mutations - 1

\* Fault variant: a removal that reports each of its calls of onNodeRemove
\* twice.
RemovalReportedTwice(args, ret, calls) ==
  [op |-> "removeNodeByInternalId", arg |-> args, ret |-> ret,
   callbacks |-> calls \o calls]

\* What a call of removeNodeByInternalId leaves in `last`: besides its
\* arguments and its result, the calls of onNodeRemove it made, each with the
\* node object and the internal id it was handed.  The callback is the last
\* statement that runs before the return (line 1263), so the tree it observes
\* is the tree the call leaves.
Removal(args, ret, calls) ==
  [op |-> "removeNodeByInternalId", arg |-> args, ret |-> ret, callbacks |-> calls]

RemoveNodeByInternalId(internalId) ==
  \E e \in Entropies :
    LET target == Lookup(internalId)
        rm == removeFromNodes(data, target)
        c == cleanupNodeMappings(NodeAt(data, target),
                                 [ndm |-> nodeDataMap, iim |-> internalIdMap,
                                  n2i |-> nodeToInternalIdMap,
                                  sel |-> selectedNodes, exp |-> expandedNodes])
        fd == filterNodes(rm.nodes, searchTerm)
        b == buildNodeDataMap(rm.nodes, usedInternalIds, internalIdCounter, <<>>, e)
        args == [id |-> internalId,
                 undoes |-> last.op = "addNode" /\ last.ret = internalId]
    IN /\ CountMutation
       /\ IF internalId = NoIid \/ target = 0 \/ ~rm.removed
          THEN /\ last' = Removal(args, FALSE, <<>>)
               /\ UNCHANGED <<data, searchTerm, pageSize, selectedNodes, expandedNodes,
                              view, registry, config, nextObj>>
          ELSE /\ last' = Removal(args, TRUE,
                                 <<[node |-> NodeAt(data, target),
                                   internalId |-> internalId]>>)
               /\ b.st.ok
               /\ data' = b.nodes
               /\ selectedNodes' = c.sel
               /\ expandedNodes' = c.exp
               /\ filteredData' = (IF searchTerm = <<>> THEN b.nodes ELSE fd)
               /\ SetRegistry(b.st)
               /\ updateTreeContent(IF searchTerm = <<>> THEN b.nodes ELSE fd,
                                    pageSize, currentPage)
               /\ UNCHANGED <<searchTerm, pageSize, config, nextObj>>

UpdateNodeByInternalId(internalId, updatedData) ==
  LET target == Lookup(internalId)
      nodes == SetNode(data, target, AssignOnto(NodeAt(data, target), updatedData))
      fd == filterNodes(nodes, searchTerm)
  IN /\ CountMutation
     /\ IF internalId = NoIid \/ ~IsObject(updatedData) \/ target = 0
        THEN /\ last' = Op("updateNodeByInternalId", [id |-> internalId, data |-> updatedData], FALSE)
             /\ UNCHANGED <<data, searchTerm, pageSize, selectedNodes, expandedNodes,
                            view, registry, config, nextObj>>
        ELSE /\ last' = Op("updateNodeByInternalId", [id |-> internalId, data |-> updatedData], TRUE)
             /\ data' = nodes
             /\ filteredData' = fd
             /\ updateTreeContent(fd, pageSize, currentPage)
             /\ UNCHANGED <<searchTerm, pageSize, selectedNodes, expandedNodes,
                            registry, config, nextObj>>

AddNode(parentInternalId, newNodeData, position) ==
  \E e \in Entropies :
    LET g == generateInternalId(internalIdCounter, usedInternalIds, e)
        newNode == NewNode(newNodeData, g.id, nextObj)
        parent == Lookup(parentInternalId)
        nodes == IF parentInternalId = RootSentinel
                 THEN addToRootLevel(data, newNode, position)
                 ELSE SetNode(data, parent,
                              addToParentNode(NodeAt(data, parent), newNode, position))
        args == [parent |-> parentInternalId, position |-> position,
                 record |-> newNodeData, before |-> Shape(data)]
    IN /\ CountMutation
       /\ IF ~IsObject(newNodeData)
          THEN /\ last' = Op("addNode", args, NoIid)
               /\ UNCHANGED <<data, searchTerm, pageSize, selectedNodes, expandedNodes,
                              view, registry, config, nextObj>>
          ELSE /\ g.ok
               /\ IF parentInternalId # RootSentinel /\ parent = 0
                  THEN /\ last' = Op("addNode", args, NoIid)
                       /\ usedInternalIds' = g.used
                       /\ internalIdCounter' = g.ctr
                       /\ issued' = Append(issued, Call(g, usedInternalIds))
                       /\ UNCHANGED <<data, searchTerm, pageSize, selectedNodes,
                                      expandedNodes, view, nodeDataMap, internalIdMap,
                                      nodeToInternalIdMap, everIndexed, config, nextObj>>
                  ELSE /\ Size(nodes) <= MaxNodes
                       /\ last' = Op("addNode", args, g.id)
                       /\ refreshTree(nodes, g.used, g.ctr, <<Call(g, usedInternalIds)>>, e)
                       /\ nextObj' = nextObj + Size(<<newNodeData>>)
                       /\ UNCHANGED <<searchTerm, pageSize, selectedNodes, expandedNodes,
                                      config>>

AddNodeAtPosition(newNodeData, referenceInternalId, position) ==
  \E e \in Entropies :
    LET reference == Lookup(referenceInternalId)
        g == generateInternalId(internalIdCounter, usedInternalIds, e)
        newNode == NewNode(newNodeData, g.id, nextObj)
        parent == findParentNode(data, reference)
        list == IF parent # 0 THEN NodeAt(data, parent).kids ELSE data
        referenceIndex == IndexOf([i \in DOMAIN list |-> list[i].obj], reference) - 1
        insertIndex == IF position = "before" THEN referenceIndex ELSE referenceIndex + 1
        spliced == InsertAt(list, insertIndex, newNode)
        nodes == IF parent # 0
                 THEN SetNode(data, parent, [NodeAt(data, parent) EXCEPT !.kids = spliced])
                 ELSE spliced
        args == [ref |-> referenceInternalId, position |-> position,
                 record |-> newNodeData]
    IN /\ CountMutation
       /\ IF ~IsObject(newNodeData) \/ reference = 0
          THEN /\ last' = Op("addNodeAtPosition", args, NoIid)
               /\ UNCHANGED <<data, searchTerm, pageSize, selectedNodes, expandedNodes,
                              view, registry, config, nextObj>>
          ELSE /\ g.ok
               /\ Size(nodes) <= MaxNodes
               /\ last' = Op("addNodeAtPosition", args, g.id)
               /\ refreshTree(nodes, g.used, g.ctr, <<Call(g, usedInternalIds)>>, e)
               /\ nextObj' = nextObj + Size(<<newNodeData>>)
               /\ UNCHANGED <<searchTerm, pageSize, selectedNodes, expandedNodes, config>>

\* buildNodeDataMap called by the owner of the tree.  The traversal writes
\* `_internalId` onto the node objects, which filteredData and paginatedData
\* share with `data` while no search term is set.
BuildNodeDataMap ==
  \E e \in Entropies :
    LET b == buildNodeDataMap(data, usedInternalIds, internalIdCounter, <<>>, e)
        now(list) == [i \in DOMAIN list |-> NodeAt(b.nodes, list[i].obj)]
    IN /\ b.st.ok
       /\ last' = Op("buildNodeDataMap", <<>>, "ok")
       /\ data' = b.nodes
       /\ filteredData' = (IF searchTerm = <<>> THEN b.nodes ELSE filteredData)
       /\ paginatedData' = (IF searchTerm = <<>> THEN now(paginatedData)
                            ELSE paginatedData)
       /\ SetRegistry(b.st)
       /\ UNCHANGED <<searchTerm, pageSize, currentPage, totalPages, selectedNodes,
                      expandedNodes, config, nextObj, mutations>>

(***************************************************************************)
(* Forest replacement.                                                     *)
(***************************************************************************)
\* updateData: the search term, the selection and the expansion set stay.
updateData(newData, e) ==
  LET nodes == Alloc(newData, nextObj)
      b == buildNodeDataMap(nodes, usedInternalIds, internalIdCounter, <<>>, e)
  IN /\ b.st.ok
     /\ data' = b.nodes
     /\ filteredData' = b.nodes
     /\ SetRegistry(b.st)
     /\ updateTreeContent(b.nodes, pageSize, 1)
     /\ nextObj' = nextObj + Size(newData)
     /\ UNCHANGED <<searchTerm, pageSize, selectedNodes, expandedNodes, config>>

UpdateData(newData) ==
  \E e \in Entropies :
    /\ CountMutation
    /\ last' = Op("updateData", <<>>, "ok")
    /\ updateData(newData, e)

\* importTreeData: input is [kind, value]; kind "text" is JSON text that
\* parses to value, "badtext" is text JSON.parse rejects, "value" is an
\* already parsed value; isArray tells what Array.isArray answers.
\* Fault variant: importTreeData that takes a value that is no array for an
\* empty forest instead of rejecting it.
ImportTreeDataUnchecked(input) ==
  \E e \in Entropies :
    LET args == [kind |-> input.kind, isArray |-> input.isArray,
                 value |-> input.value]
    IN /\ CountMutation
       /\ IF input.kind = "badtext"
          THEN /\ last' = Op("importTreeData", args, FALSE)
               /\ UNCHANGED <<data, searchTerm, pageSize, selectedNodes, expandedNodes,
                              view, registry, config, nextObj>>
          ELSE /\ last' = Op("importTreeData", args, TRUE)
               /\ data' = <<>>
               /\ filteredData' = <<>>
               /\ SetRegistry(buildNodeDataMap(<<>>, usedInternalIds, internalIdCounter,
                                               <<>>, e).st)
               /\ updateTreeContent(<<>>, pageSize, 1)
               /\ UNCHANGED <<searchTerm, pageSize, selectedNodes, expandedNodes, config,
                              nextObj>>

\* When buildNodeDataMap throws inside updateData, the catch block returns
\* false after updateData has assigned data, filteredData and currentPage and
\* the traversal has cleared and partly refilled the indexes;
\* updateTreeContent is not reached.
ImportTreeData(input) ==
  \E e \in Entropies :
    LET args == [kind |-> input.kind, isArray |-> input.isArray,
                 value |-> input.value]
        nodes == Alloc(input.value, nextObj)
        b == buildNodeDataMap(nodes, usedInternalIds, internalIdCounter, <<>>, e)
    IN /\ CountMutation
       /\ IF input.kind = "badtext" \/ ~input.isArray
          THEN /\ last' = Op("importTreeData", args, FALSE)
               /\ UNCHANGED <<data, searchTerm, pageSize, selectedNodes, expandedNodes,
                              view, registry, config, nextObj>>
          ELSE IF ~b.st.ok
          THEN /\ last' = Op("importTreeData", args, FALSE)
               /\ data' = b.nodes
               /\ filteredData' = b.nodes
               /\ currentPage' = 1
               /\ SetRegistry(b.st)
               /\ nextObj' = nextObj + Size(input.value)
               /\ UNCHANGED <<paginatedData, totalPages, searchTerm, pageSize,
                              selectedNodes, expandedNodes, config>>
          ELSE /\ last' = Op("importTreeData", args, TRUE)
               /\ updateData(input.value, e)

Imports ==
  {[kind |-> "text", isArray |-> TRUE, value |-> f] : f \in Forests}
    \cup {[kind |-> "value", isArray |-> FALSE, value |-> <<>>],
          [kind |-> "text", isArray |-> FALSE, value |-> <<>>],
          [kind |-> "badtext", isArray |-> FALSE, value |-> <<>>]}

(***************************************************************************)
(* Lookups.  A node argument is the identity of an object, 0 for null or   *)
(* undefined; a node result likewise, and NoIid is the result null of a    *)
(* lookup that yields an id.                                               *)
(***************************************************************************)
\* Everything a TreeView holds.
state == <<data, searchTerm, pageSize, selectedNodes, expandedNodes, view, registry,
           config, nextObj, mutations>>

\* An object that is no node of the tree.
UnknownObj == 0 - 99

GetNodeByInternalId(internalId) ==
  /\ last' = Op("getNodeByInternalId", internalId,
                IF internalId = NoIid THEN 0 ELSE Lookup(internalId))
  /\ UNCHANGED state

\* Fault variant: getNodesByInternalIds that pushes an entry for every id.
GetNodesByInternalIdsUnfiltered(internalIds) ==
  /\ last' = Op("getNodesByInternalIds", internalIds,
                IF ~internalIds.isArray THEN <<>>
                ELSE [i \in DOMAIN internalIds.value |->
                        [internalId |-> internalIds.value[i],
                         node |-> Lookup(internalIds.value[i])]])
  /\ UNCHANGED state

\* internalIds is [isArray, value]: value is the list when isArray holds.
GetNodesByInternalIds(internalIds) ==
  LET found == SelectSeq(internalIds.value, LAMBDA i : Lookup(i) # 0)
  IN /\ last' = Op("getNodesByInternalIds", internalIds,
                   IF ~internalIds.isArray THEN <<>>
                   ELSE [i \in DOMAIN found |->
                           [internalId |-> found[i], node |-> Lookup(found[i])]])
     /\ UNCHANGED state

HasInternalId(internalId) ==
  /\ last' = Op("hasInternalId", internalId, internalId \in DOMAIN internalIdMap)
  /\ UNCHANGED state

GetInternalId(node) ==
  /\ last' = Op("getInternalId", node,
                IF node = 0 \/ node \notin DOMAIN nodeToInternalIdMap THEN NoIid
                ELSE nodeToInternalIdMap[node])
  /\ UNCHANGED state

\* The id lists handed to getNodesByInternalIds: none, one known, a known
\* and an unknown one in either order, and a value that is no array.
IdLists ==
  {[isArray |-> FALSE, value |-> <<>>], [isArray |-> TRUE, value |-> <<>>]}
    \cup {[isArray |-> TRUE, value |-> <<i>>] : i \in DOMAIN internalIdMap}
    \cup {[isArray |-> TRUE, value |-> v] :
            v \in UNION {{<<i, UnknownIid>>, <<NoIid, i>>} : i \in DOMAIN internalIdMap}}

(***************************************************************************)
(* Export.                                                                 *)
(***************************************************************************)
RECURSIVE cleanDataForExportFlat(_)
\* Fault variant: cleanDataForExport that drops the children of every record.
cleanDataForExportFlat(nodes) ==
  [i \in DOMAIN nodes |->
     [obj |-> 0,
      keys |-> SelectSeq(nodes[i].keys,
                         LAMBDA k : k \notin {"_internalId", "children", UndefChildren}),
      id |-> nodes[i].id, name |-> nodes[i].name, iid |-> NoIid, kids |-> <<>>]]

\* Fault variant: cleanDataForExport that hands the children arrays on as
\* they are.
cleanDataForExportTopLevel(nodes) ==
  [i \in DOMAIN nodes |->
     [obj |-> 0,
      keys |-> SelectSeq(nodes[i].keys, LAMBDA k : k # "_internalId"),
      id |-> nodes[i].id, name |-> nodes[i].name, iid |-> NoIid,
      kids |-> nodes[i].kids]]

RECURSIVE cleanDataForExport(_)
\* cleanDataForExport: { ...node } without `_internalId`; a children array
\* that is not empty is replaced by its cleaned copy.
cleanDataForExport(nodes) ==
  [i \in DOMAIN nodes |->
     [obj |-> 0,
      keys |-> SelectSeq(nodes[i].keys, LAMBDA k : k # "_internalId"),
      id |-> nodes[i].id, name |-> nodes[i].name, iid |-> NoIid,
      kids |-> IF HasKids(nodes[i]) THEN cleanDataForExport(nodes[i].kids)
               ELSE nodes[i].kids]]

RECURSIVE JsonCopy(_)
\* JSON.parse(JSON.stringify(nodes)): new objects with the same properties in
\* the same order, except those that hold undefined.
JsonCopy(nodes) ==
  [i \in DOMAIN nodes |->
     [obj |-> 0,
      keys |-> SelectSeq(nodes[i].keys, LAMBDA k : k # UndefChildren),
      id |-> nodes[i].id, name |-> nodes[i].name, iid |-> nodes[i].iid,
      kids |-> JsonCopy(nodes[i].kids)]]

\* exportTreeDataWithOptions: the text handed to the download is kept as what
\* the call produced; the tree itself is not written.
ExportTreeDataWithOptions(includeInternalIds, includeOnlyVisible) ==
  LET dataToExport == IF includeOnlyVisible THEN filteredData ELSE data
      cleanData == IF includeInternalIds THEN JsonCopy(dataToExport)
                   ELSE cleanDataForExport(dataToExport)
      jsonData == JsonCopy(cleanData)
  IN /\ last' = Op("exportTreeData",
                   [includeInternalIds |-> includeInternalIds,
                    includeOnlyVisible |-> includeOnlyVisible], jsonData)
     /\ UNCHANGED <<data, searchTerm, pageSize, selectedNodes, expandedNodes, view,
                    registry, config, nextObj, mutations>>

\* importTreeData given the text the export just before it produced.
ImportExported ==
  /\ last.op = "exportTreeData"
  /\ ImportTreeData([kind |-> "text", isArray |-> TRUE, value |-> last.ret])

\* replace(/,/g, '')
StripCommas(s) == SelectSeq(s, LAMBDA c : c # ",")

CsvHeader ==
  <<"L", "e", "v", "e", "l", ",", "P", "a", "r", "e", "n", "t", ",">>
    \o <<"N", "a", "m", "e", ",", "H", "a", "s", "C", "h", "i", "l", "d", "r", "e", "n", ",">>
    \o <<"C", "h", "i", "l", "d", "r", "e", "n", " ", "C", "o", "u", "n", "t", "\n">>

\* The text of `node.children && node.children.length > 0` in a template
\* literal: undefined when the node has no children list.
HasChildrenText(node) ==
  IF ~HasKey(node.keys, "children") THEN <<"u", "n", "d", "e", "f", "i", "n", "e", "d">>
  ELSE IF HasKids(node) THEN <<"t", "r", "u", "e">>
       ELSE <<"f", "a", "l", "s", "e">>

RECURSIVE convertTreeToCSVSameLevel(_, _, _)
\* Fault variant: a conversion that does not raise the level when it descends.
convertTreeToCSVSameLevel(nodes, level, parentName) ==
  IF nodes = <<>> THEN <<>>
  ELSE LET node == Head(nodes)
           row == Decimal(level) \o <<",", "\"">> \o StripCommas(parentName)
                    \o <<"\"", ",", "\"">> \o StripCommas(node.name)
                    \o <<"\"", ",">> \o HasChildrenText(node)
                    \o <<",">> \o Decimal(Len(node.kids)) \o <<"\n">>
       IN row \o convertTreeToCSVSameLevel(node.kids, level, node.name)
              \o convertTreeToCSVSameLevel(Tail(nodes), level, parentName)

RECURSIVE convertTreeToCSVRows(_, _, _)
\* convertTreeToCSV without the header: the forEach over the nodes of one
\* list, each row followed by the rows of the node's children.  The display
\* field is the default, `name`.
convertTreeToCSVRows(nodes, level, parentName) ==
  IF nodes = <<>> THEN <<>>
  ELSE LET node == Head(nodes)
           hasChildren == HasKey(node.keys, "children") /\ HasKids(node)
           childrenCount == IF hasChildren THEN Len(node.kids) ELSE 0
           escapedName == StripCommas(node.name)
           escapedParent == StripCommas(parentName)
           row == Decimal(level) \o <<",", "\"">> \o escapedParent
                    \o <<"\"", ",", "\"">> \o escapedName
                    \o <<"\"", ",">> \o HasChildrenText(node)
                    \o <<",">> \o Decimal(childrenCount) \o <<"\n">>
       IN row \o (IF hasChildren
                  THEN convertTreeToCSVRows(node.kids, level + 1, node.name)
                  ELSE <<>>)
              \o convertTreeToCSVRows(Tail(nodes), level, parentName)

\* convertTreeToCSV(data): the header row, then the rows.
convertTreeToCSV(nodes) == CsvHeader \o convertTreeToCSVRows(nodes, 0, <<>>)

\* exportTreeAsCSV: the text handed to the download is kept as what the call
\* produced; the tree itself is not written.
ExportTreeAsCSV ==
  /\ last' = Op("exportTreeAsCSV", <<>>, convertTreeToCSV(data))
  /\ UNCHANGED <<data, searchTerm, pageSize, selectedNodes, expandedNodes, view,
                 registry, config, nextObj, mutations>>

\* '[{"name":"A"},null]' and '[{"id":"x","name":"b","children":"ab"}]'
MalformedImports ==
  { [kind |-> "text", isArray |-> TRUE,
     value |-> << Rec(<<"name">>, NoId, <<"A">>, NoIid, <<>>), Null >>],
    [kind |-> "text", isArray |-> TRUE,
     value |-> << [obj |-> 0, keys |-> <<"id", "name", "children">>, id |-> <<"x">>,
                   name |-> <<"b">>, iid |-> NoIid, kids |-> <<>>,
                   childrenText |-> <<"a", "b">>] >>] }

(***************************************************************************)
(* Selection tracker and expansion markers.  The handlers are wired to the *)
(* nodes createTree rendered: those of the current page, at every depth.   *)
(***************************************************************************)
Rendered == NodesOf(IF showPagination THEN paginatedData ELSE filteredData)

RECURSIVE selectNodeAndChildren(_, _, _)
selectNodeAndChildren(node, nodeId, sel) ==
  LET F[i \in 0..Len(node.kids)] ==
        IF i = 0 THEN sel \cup {nodeId}
        ELSE selectNodeAndChildren(node.kids[i], NodeKey(node.kids[i]), F[i - 1])
  IN F[Len(node.kids)]

RECURSIVE deselectNodeAndChildren(_, _, _)
deselectNodeAndChildren(node, nodeId, sel) ==
  LET F[i \in 0..Len(node.kids)] ==
        IF i = 0 THEN sel \ {nodeId}
        ELSE deselectNodeAndChildren(node.kids[i], NodeKey(node.kids[i]), F[i - 1])
  IN F[Len(node.kids)]

\* toggleSelection, reached from the checkbox of a rendered node.
ToggleSelection(node) ==
  LET nodeId == NodeKey(node)
      wasSelected == nodeId \in selectedNodes
  IN /\ showCheckboxes
     /\ last' = Op("toggleSelection", <<>>, node.obj)
     /\ selectedNodes' = (IF wasSelected
                          THEN deselectNodeAndChildren(node, nodeId, selectedNodes)
                          ELSE selectNodeAndChildren(node, nodeId, selectedNodes))
     /\ UNCHANGED <<data, searchTerm, pageSize, expandedNodes, view, registry, config,
                    nextObj, mutations>>

\* Fault variant: selectNode without the clear of single-select mode.
SelectNodeAdding(node) ==
  LET nodeId == NodeKey(node)
  IN /\ ~showCheckboxes
     /\ last' = Op("selectNode", [nodeId |-> nodeId, before |-> selectedNodes],
                   node.obj)
     /\ selectedNodes' = selectedNodes \cup {nodeId}
     /\ UNCHANGED <<data, searchTerm, pageSize, expandedNodes, view, registry, config,
                    nextObj, mutations>>

\* selectNode, reached from a click on a rendered node without checkboxes.
SelectNode(node) ==
  LET nodeId == NodeKey(node)
  IN /\ ~showCheckboxes
     /\ last' = Op("selectNode", [nodeId |-> nodeId, before |-> selectedNodes],
                   node.obj)
     /\ selectedNodes' = (IF ~multiSelect THEN {} ELSE selectedNodes) \cup {nodeId}
     /\ UNCHANGED <<data, searchTerm, pageSize, expandedNodes, view, registry, config,
                    nextObj, mutations>>

ClearSelection ==
  /\ last' = Op("clearSelection", <<>>, "ok")
  /\ selectedNodes' = {}
  /\ updateTreeContent(filteredData, pageSize, currentPage)
  /\ UNCHANGED <<data, filteredData, searchTerm, pageSize, expandedNodes, registry,
                 config, nextObj, mutations>>

\* toggleNode, reached from the toggle of a rendered node that has children.
ToggleNode(node) ==
  LET nodeId == NodeKey(node)
  IN /\ HasKids(node)
     /\ last' = Op("toggleNode", <<>>, node.obj)
     /\ expandedNodes' = (IF nodeId \in expandedNodes THEN expandedNodes \ {nodeId}
                          ELSE expandedNodes \cup {nodeId})
     /\ UNCHANGED <<data, searchTerm, pageSize, selectedNodes, view, registry, config,
                    nextObj, mutations>>

ExpandAllNodes ==
  LET r == getPaginatedData(filteredData, pageSize, currentPage, paginatedData, totalPages)
  IN /\ last' = Op("expandAllNodes", <<>>, "ok")
     /\ expandedNodes' = expandedNodes \cup Range(collectNodeIds(r.shown))
     /\ updateTreeContent(filteredData, pageSize, currentPage)
     /\ UNCHANGED <<data, filteredData, searchTerm, pageSize, selectedNodes, registry,
                    config, nextObj, mutations>>

CollapseAllNodes ==
  /\ last' = Op("collapseAllNodes", <<>>, "ok")
  /\ expandedNodes' = {}
  /\ updateTreeContent(filteredData, pageSize, currentPage)
  /\ UNCHANGED <<data, filteredData, searchTerm, pageSize, selectedNodes, registry,
                 config, nextObj, mutations>>

(***************************************************************************)
(* Specifications.                                                         *)
(***************************************************************************)
Mutate ==
  \/ \E i \in KnownIids \cup {NoIid} : RemoveNodeByInternalId(i)
  \/ \E i \in KnownIids \cup {NoIid}, u \in Partials : UpdateNodeByInternalId(i, u)
  \/ \E i \in KnownIids \cup {RootSentinel}, r \in Records, p \in Positions :
       AddNode(i, r, p)
  \/ \E i \in KnownIids, r \in Records, p \in {"before", "after"} :
       AddNodeAtPosition(r, i, p)
  \/ \E f \in Forests : UpdateData(f)
  \/ \E i \in Imports : ImportTreeData(i)

Navigate ==
  \/ \E n \in PageSizes : SetPageSize(n)
  \/ \E p \in 0..MaxPageArg : GoToPage(p)
  \/ NextPage
  \/ PreviousPage
  \/ FirstPage
  \/ LastPage

Search == \E t \in Terms : HandleSearch(t)

Select ==
  \/ \E n \in Rendered : ToggleSelection(n)
  \/ \E n \in Rendered : SelectNode(n)
  \/ ClearSelection

Expand ==
  \/ \E n \in Rendered : ToggleNode(n)
  \/ ExpandAllNodes
  \/ CollapseAllNodes

Next == Mutate \/ Navigate \/ Search \/ Select \/ Expand

Spec == Init /\ [][Next]_vars

\* The registry under the mutator.
NextRegistry == Mutate

SpecRegistry == InitRegistry /\ [][NextRegistry]_vars

\* The paginator under navigation, search and mutation.
NextView == Mutate \/ Navigate \/ Search

SpecView == InitView /\ [][NextView]_vars

\* The registry under the mutator and direct calls of buildNodeDataMap.
NextRebuild == Mutate \/ BuildNodeDataMap

SpecRebuild == InitRegistry /\ [][NextRebuild]_vars

\* Export followed by import, on trees the mutator has changed.
Export == \E ids \in BOOLEAN, visible \in BOOLEAN : ExportTreeDataWithOptions(ids, visible)

NextRoundTrip == Mutate \/ Export \/ ImportExported

SpecRoundTrip == InitRegistry /\ [][NextRoundTrip]_vars

\* The CSV text of trees as constructed and as changed by the mutator, some
\* of them with commas in their display values.
InitCsv ==
  \E f \in Forests \cup {ForestC}, e \in Entropies :
    Construct(f, DefaultPageSize, FALSE, FALSE, e, MaxViewMutations)

NextCsv == Mutate \/ ExportTreeAsCSV

SpecCsv == InitCsv /\ [][NextCsv]_vars

\* Forest replacement, with well-formed and malformed input.
NextImport ==
  \/ \E f \in Forests : UpdateData(f)
  \/ \E i \in Imports \cup MalformedImports : ImportTreeData(i)

SpecImport == InitRegistry /\ [][NextImport]_vars

\* Selection by click, without checkboxes, in single-select and in
\* multi-select mode, under search, page turns and the mutator.  In
\* multi-select mode the clicks stop at MaxSelected keys.
InitClick ==
  \E f \in Forests, ps \in PageSizes \ {0}, ms \in BOOLEAN :
    Construct(f, ps, ms, FALSE, 0, MaxViewMutations)

Click ==
  /\ Cardinality(selectedNodes) < MaxSelected
  /\ \E n \in Rendered : SelectNode(n)

Turn == NextPage \/ PreviousPage

NextClick == Click \/ ClearSelection \/ Search \/ Turn \/ Mutate

SpecClick == InitClick /\ [][NextClick]_vars

\* The view of trees constructed with or without nodes, under the mutator,
\* navigation, search and imports of malformed arrays.
InitPaged ==
  \E f \in Forests \cup {<<>>}, ps \in PageSizes \ {0}, e \in Entropies :
    Construct(f, ps, FALSE, FALSE, e, MaxViewMutations)

ImportMalformed == \E i \in MalformedImports : ImportTreeData(i)

NextPaged == Mutate \/ Navigate \/ Search \/ ImportMalformed

SpecPaged == InitPaged /\ [][NextPaged]_vars

\* {name:'b', children:[{name:'A'}]} besides the records of the mutator: a
\* record whose nested object carries no _internalId.
CallerRecords ==
  Records \cup
  { Rec(<<"name", "children">>, NoId, <<"b">>, NoIid,
        << Rec(<<"name">>, NoId, <<"A">>, NoIid, <<>>) >>) }

\* The identity of the first object under `children` of the record the add
\* just before was given: NewNode numbers the new node and then the caller's
\* nested objects from nextObj on.
FirstNested == nextObj - Size(<<last.arg.record>>) + 1

\* The caller of addNode or addNodeAtPosition writes `children[0].name = 'B'`
\* on the record it handed in.  `{ ...newNodeData }` copies the record's own
\* properties only, so the array under `children` and the objects in it are
\* the ones the new node holds: the write lands on that object wherever it is
\* referenced.
CallerWrites ==
  /\ last.op \in {"addNode", "addNodeAtPosition"}
  /\ last.ret # NoIid
  /\ HasKids(last.arg.record)
  /\ LET o == FirstNested
         write(nodes) ==
           IF \E n \in NodesOf(nodes) : n.obj = o
           THEN SetNode(nodes, o, [NodeAt(nodes, o) EXCEPT !.name = <<"B">>])
           ELSE nodes
     IN /\ data' = write(data)
        /\ filteredData' = write(filteredData)
        /\ paginatedData' = write(paginatedData)
        /\ last' = Op("callerWrites", [obj |-> o, record |-> last.arg.record], <<>>)
  /\ UNCHANGED <<searchTerm, currentPage, totalPages, pageSize, selectedNodes,
                 expandedNodes, registry, config, nextObj, mutations>>

\* The adding operations on records of a caller that keeps and changes them.
Add ==
  \/ \E i \in KnownIids \cup {RootSentinel}, r \in CallerRecords, p \in Positions :
       AddNode(i, r, p)
  \/ \E i \in KnownIids, r \in CallerRecords, p \in {"before", "after"} :
       AddNodeAtPosition(r, i, p)

NextCaller == Add \/ CallerWrites

SpecCaller == InitRegistry /\ [][NextCaller]_vars

\* Selection and expansion under removal, update and forest replacement.
Rekey ==
  \/ \E i \in KnownIids \cup {NoIid}, u \in Partials : UpdateNodeByInternalId(i, u)
  \/ \E f \in Forests : UpdateData(f)
  \/ \E i \in Imports : ImportTreeData(i)

\* The lookups on trees the mutator has changed.
LookUp ==
  \/ \E i \in KnownIids \cup {NoIid} : GetNodeByInternalId(i)
  \/ \E l \in IdLists : GetNodesByInternalIds(l)
  \/ \E i \in KnownIids \cup {NoIid} : HasInternalId(i)
  \/ \E n \in DOMAIN nodeToInternalIdMap \cup {0, UnknownObj} : GetInternalId(n)

NextLookup == Mutate \/ LookUp

SpecLookup == InitView /\ [][NextLookup]_vars

\* Forest replacement under a small page size.
InitImportView ==
  \E f \in Forests, ps \in PageSizes \ {0}, e \in Entropies :
    Construct(f, ps, FALSE, FALSE, e, MaxMutations)

SpecImportView == InitImportView /\ [][NextImport]_vars

\* Removal from a tree in which nodes were selected and expanded.
Remove == \E i \in KnownIids \cup {NoIid} : RemoveNodeByInternalId(i)

NextPurge == Remove \/ Select \/ Expand

SpecPurge == Init /\ [][NextPurge]_vars

NextTracker == Remove \/ Rekey \/ Select \/ Expand

SpecTracker == Init /\ [][NextTracker]_vars

\* The selection and expansion sets under the rendered tree's handlers.
NextSelection == Search \/ Select \/ Expand

SpecSelection == Init /\ [][NextSelection]_vars

(***************************************************************************)
(* Properties.                                                             *)
(***************************************************************************)
\* The nodes a forest holds below node n.
Descendants(n) == NodesOf(n.kids)

\* C1: after every public operation the three indexes agree with the forest:
\* nodeDataMap maps exactly the current natural keys of the reachable nodes
\* to nodes carrying them, internalIdMap and nodeToInternalIdMap hold an
\* entry for every reachable node and for no other, and buildNodeDataMap
\* called again would change no index.
IndexesAgreeWithForest ==
  LET reach == NodesOf(data)
  IN /\ DOMAIN nodeDataMap = {NodeKey(n) : n \in reach}
     /\ \A k \in DOMAIN nodeDataMap :
          \E n \in reach : n.obj = nodeDataMap[k] /\ NodeKey(n) = k
     /\ DOMAIN nodeToInternalIdMap = {n.obj : n \in reach}
     /\ \A n \in reach : nodeToInternalIdMap[n.obj] = n.iid
     /\ DOMAIN internalIdMap = {n.iid : n \in reach}
     /\ \A n \in reach : internalIdMap[n.iid] = n.obj
     /\ \A e \in Entropies :
          LET b == buildNodeDataMap(data, usedInternalIds, internalIdCounter, <<>>, e)
          IN /\ b.st.ndm = nodeDataMap
             /\ b.st.iim = internalIdMap
             /\ b.st.n2i = nodeToInternalIdMap

\* C2: a node that has an internal id keeps it for as long as the node stays
\* in the forest, whatever the operation and whatever `_internalId` the
\* inserted records carry.
InternalIdNeverChanges ==
  [][\A n \in NodesOf(data), m \in NodesOf(data') :
       (n.iid # NoIid /\ m.obj = n.obj) => m.iid = n.iid]_vars

\* C3: an internal id that was ever indexed to one node is never indexed to a
\* different node.
InternalIdNeverReindexed ==
  \A i \in DOMAIN everIndexed : Cardinality(everIndexed[i]) <= 1

\* C4: every call of generateInternalId returned a value usedInternalIds did
\* not hold before the call, the value is in usedInternalIds from then on
\* (the set never loses an element), and no two calls returned the same
\* value.
AllocatorIssuesFreshIds ==
  /\ [](\A i \in DOMAIN issued :
          /\ ~issued[i].wasUsed
          /\ issued[i].id \in usedInternalIds
          /\ \A j \in 1..(i - 1) : issued[j].id # issued[i].id)
  /\ [][usedInternalIds \subseteq usedInternalIds']_vars

\* A state in which the allocator skipped a counter value because the id it
\* formed was in usedInternalIds (carried by a loaded record), and in which a
\* mutation later removed nodes while usedInternalIds kept their ids.
AllocatorSkippedUsedId ==
  /\ \E i \in DOMAIN issued, u \in usedInternalIds :
       /\ u[1] < issued[i].id[1]
       /\ u[2] = issued[i].id[2]
       /\ \A j \in DOMAIN issued : issued[j].id # u
  /\ \E u \in usedInternalIds : u \notin DOMAIN internalIdMap
  /\ Len(issued) >= 2

\* The terms handleSearch hands to filterNodes: lower-cased, not empty.
SearchTerms == {toLowerCase(t) : t \in Terms} \ {<<>>}

\* The display value contains the term, compared without regard to case.
Contains(node, term) == includes(toLowerCase(node.name), toLowerCase(term))

\* The nodes of the forest that the copies in a filter result stand for.
Originals(res) == {0 - c.obj : c \in NodesOf(res)}

RECURSIVE SameSiblingOrder(_, _)
\* At every level the result lists, in the order of the forest, the siblings
\* that appear.
SameSiblingOrder(orig, res) ==
  LET origIds == [i \in DOMAIN orig |-> orig[i].obj]
      resIds == [i \in DOMAIN res |-> 0 - res[i].obj]
  IN /\ resIds = SelectSeq(origIds, LAMBDA o : o \in Range(resIds))
     /\ \A i \in DOMAIN res :
          \E j \in DOMAIN orig :
            /\ orig[j].obj = resIds[i]
            /\ SameSiblingOrder(orig[j].kids, res[i].kids)

\* C5: for every non-empty search term a node appears in the result of
\* filterNodes iff its display value contains the term or the display value
\* of one of its transitive descendants does, and the nodes that appear keep
\* their order among their siblings at every level.
FilterKeepsMatchesAndAncestors ==
  \A t \in SearchTerms :
    LET res == filterNodes(data, t)
    IN /\ \A n \in NodesOf(data) :
            n.obj \in Originals(res)
              <=> (Contains(n, t) \/ \E d \in Descendants(n) : Contains(d, t))
       /\ SameSiblingOrder(data, res)

\* After a search the result holds a node kept only for a descendant, and
\* the forest holds nodes the result lacks.
SearchKeptAncestorAndPruned ==
  /\ last.op = "handleSearch"
  /\ searchTerm # <<>>
  /\ filteredData = filterNodes(data, searchTerm)
  /\ \E c \in NodesOf(filteredData) : ~Contains(c, searchTerm) /\ HasKids(c)
  /\ \E n \in NodesOf(data) : n.obj \notin Originals(filteredData)

\* C6: filterNodes with the empty term returns the forest itself, nothing
\* pruned or copied, and handleSearch("") makes filteredData the whole forest
\* again.
EmptyTermIsIdentity ==
  /\ filterNodes(data, <<>>) = data
  /\ (last.op = "handleSearch" /\ searchTerm = <<>>) => filteredData = data

\* handleSearch("") has run after a non-empty search (which left its matches
\* expanded).
SearchClearedAfterSearch ==
  /\ last.op = "handleSearch"
  /\ searchTerm = <<>>
  /\ expandedNodes # {}
  /\ Len(data) > 0

\* The least number of pages of size ps that hold count items.
PagesFor(count, ps) ==
  CHOOSE k \in 0..count : k * ps >= count /\ \A j \in 0..(k - 1) : j * ps < count

\* C7: with pageSize > 0, totalPages = max(1, ceil(filteredData.length /
\* pageSize)) and 1 <= currentPage <= totalPages, after any navigation,
\* search or mutation.
PageCountAndCursorInRange ==
  pageSize > 0 =>
    /\ totalPages = Max(1, PagesFor(Len(filteredData), pageSize))
    /\ 1 <= currentPage
    /\ currentPage <= totalPages

\* A removal has emptied what was the last page: the cursor stands on the
\* new last page, which is full.
RemovalShrankPageCount ==
  /\ last.op = "removeNodeByInternalId"
  /\ last.ret = TRUE
  /\ totalPages > 1
  /\ currentPage = totalPages
  /\ Len(filteredData) = pageSize * totalPages

\* C8 as stated: goToPage(p) with p > totalPages sets currentPage to
\* totalPages.
GoToPageClampsToLastPage ==
  [][(last'.op = "goToPage" /\ last'.arg > totalPages) => currentPage' = totalPages]_vars

\* C8: goToPage(p) with p > totalPages is rejected: currentPage, totalPages
\* and the page shown stay as they were.
GoToPageRejectsPageAboveRange ==
  [][(last'.op = "goToPage" /\ last'.arg > totalPages)
       => UNCHANGED <<currentPage, totalPages, paginatedData, filteredData>>]_vars

\* goToPage was called with a page above totalPages while an earlier page
\* was shown.
WentAboveRange ==
  /\ last.op = "goToPage"
  /\ last.arg > totalPages
  /\ last.ret = "warn"
  /\ currentPage < totalPages

\* C9: setPageSize(n) with n <= 0 changes none of pageSize, currentPage,
\* totalPages and the page shown; with n > 0 it sets pageSize to n and
\* currentPage to 1.
SetPageSizeContract ==
  [][last'.op = "setPageSize"
       => IF last'.arg <= 0
          THEN UNCHANGED <<pageSize, currentPage, totalPages, paginatedData>>
          ELSE pageSize' = last'.arg /\ currentPage' = 1]_vars

\* setPageSize was called with a size that is not positive while a later
\* page was shown.
RejectedPageSizeOnLaterPage ==
  /\ last.op = "setPageSize"
  /\ last.arg <= 0
  /\ last.ret = "warn"
  /\ currentPage > 1

\* The node of the forest a rendered node stands for.
ForestNode(n) == NodeAt(data, IF n.obj < 0 THEN 0 - n.obj ELSE n.obj)

\* C10: a cascade toggle on an unselected node adds exactly the natural keys
\* of the node and of all its transitive descendants and removes nothing; on
\* a selected node it removes exactly those keys and adds nothing; every
\* other key stays as it was.
CascadeToggleCoversSubtree ==
  [][\A n \in Rendered :
       (last'.op = "toggleSelection" /\ last'.ret = n.obj) =>
         LET node == ForestNode(n)
             keys == {NodeKey(m) : m \in {node} \cup Descendants(node)}
         IN IF NodeKey(node) \in selectedNodes
            THEN selectedNodes' = selectedNodes \ keys
            ELSE selectedNodes' = selectedNodes \cup keys]_vars

RECURSIVE ShapeWithout(_, _)
\* A node sequence with the object o, and all below it, taken out.
ShapeWithout(shape, o) ==
  IF shape = <<>> THEN <<>>
  ELSE IF Head(shape)[1] = o THEN ShapeWithout(Tail(shape), o)
       ELSE <<<<Head(shape)[1], ShapeWithout(Head(shape)[2], o)>>>>
              \o ShapeWithout(Tail(shape), o)

\* C11: removeNodeByInternalId returns true exactly when the id resolves to a
\* node.  A successful call takes the node out of its list, all other nodes
\* keep their order, and neither the node nor any of its descendants has an
\* entry left: no index holds their object or their internal id, and
\* selectedNodes and expandedNodes hold none of their natural keys.
RemovePurgesSubtree ==
  [][last'.op = "removeNodeByInternalId" =>
       LET id == last'.arg.id
       IN /\ last'.ret = (id \in DOMAIN internalIdMap)
          /\ last'.ret =>
               LET node == NodeAt(data, internalIdMap[id])
                   gone == {node} \cup Descendants(node)
               IN /\ Shape(data') = ShapeWithout(Shape(data), node.obj)
                  /\ \A n \in gone :
                       /\ n.obj \notin {m.obj : m \in NodesOf(data')}
                       /\ \A k \in DOMAIN nodeDataMap' : nodeDataMap'[k] # n.obj
                       /\ n.iid \notin DOMAIN internalIdMap'
                       /\ \A i \in DOMAIN internalIdMap' : internalIdMap'[i] # n.obj
                       /\ n.obj \notin DOMAIN nodeToInternalIdMap'
                       /\ NodeKey(n) \notin selectedNodes'
                       /\ NodeKey(n) \notin expandedNodes']_vars

\* A node with children was removed while its own key and a descendant's key
\* were selected and expanded.
RemovedSelectedSubtree ==
  /\ last.op = "removeNodeByInternalId"
  /\ last.ret = TRUE
  /\ \E n \in NodesOf(Alloc(ForestA, 1)) :
       /\ HasKids(n)
       /\ n.obj \notin {m.obj : m \in NodesOf(data)}
       /\ Cardinality(selectedNodes) > 0
       /\ Cardinality(expandedNodes) > 0

\* The step is removeNodeByInternalId of the id the addNode just before it
\* returned.
RemovesJustAdded ==
  /\ last.op = "addNode"
  /\ last.ret # NoIid
  /\ last'.op = "removeNodeByInternalId"
  /\ last'.arg.id = last.ret

\* C12 as stated: addNode followed by removeNodeByInternalId of the returned
\* id restores the node sequence the forest had before the addNode, leaves no
\* entry for the new node's natural key or internal id in any index, and no
\* later generateInternalId returns that id.
AddThenRemoveLeavesNoKey ==
  [][RemovesJustAdded =>
       LET new == NodeAt(data, internalIdMap[last.ret])
       IN /\ last'.ret = TRUE
          /\ Shape(data') = last.arg.before
          /\ NodeKey(new) \notin DOMAIN nodeDataMap'
          /\ last.ret \notin DOMAIN internalIdMap'
          /\ new.obj \notin DOMAIN nodeToInternalIdMap'
          /\ \A e \in Entropies :
               generateInternalId(internalIdCounter', usedInternalIds', e).id # last.ret]_vars

\* C12: addNode followed by removeNodeByInternalId of the returned id
\* restores the node sequence the forest had before the addNode; the id no
\* longer resolves, no index refers to the new node, nodeDataMap holds the
\* new node's natural key only where a node that remains carries the same
\* key, and no later generateInternalId returns the id.
AddThenRemoveRestores ==
  [][RemovesJustAdded =>
       LET new == NodeAt(data, internalIdMap[last.ret])
           key == NodeKey(new)
       IN /\ last'.ret = TRUE
          /\ Shape(data') = last.arg.before
          /\ \A k \in DOMAIN nodeDataMap' : nodeDataMap'[k] # new.obj
          /\ key \in DOMAIN nodeDataMap' =>
               \E m \in NodesOf(data') : NodeKey(m) = key /\ m.obj = nodeDataMap'[key]
          /\ last.ret \notin DOMAIN internalIdMap'
          /\ \A i \in DOMAIN internalIdMap' : internalIdMap'[i] # new.obj
          /\ new.obj \notin DOMAIN nodeToInternalIdMap'
          /\ last.ret \in usedInternalIds'
          /\ \A e \in Entropies :
               generateInternalId(internalIdCounter', usedInternalIds', e).id # last.ret]_vars

\* A node added below a parent was removed again by the id addNode returned,
\* while a node that remains carries the natural key the new node had.
RemovedJustAddedNode ==
  /\ last.op = "removeNodeByInternalId"
  /\ last.ret = TRUE
  /\ last.arg.undoes
  /\ last.arg.id \notin DOMAIN internalIdMap
  /\ \E n, m \in NodesOf(data) : n.obj # m.obj /\ NodeKey(n) = NodeKey(m)

\* The objects of a list of nodes, in order.
Objs(list) == [i \in DOMAIN list |-> list[i].obj]

\* The list addNode targets: the root list for the parent 0, null or
\* undefined, the children of the node indexed under the parent id otherwise.
TargetList(nodes, iim, parent) ==
  IF parent = RootSentinel THEN nodes ELSE NodeAt(nodes, iim[parent]).kids

\* C13: a successful addNode(parent, data, position) with position 'first' or
\* 'last' inserts exactly one node into the target list, at index 0 for
\* 'first' and at the end for 'last'; the siblings and every other node keep
\* their order, and the returned id resolves to the new node.
AddNodeInsertsAtEnds ==
  [][(last'.op = "addNode" /\ last'.ret # NoIid
        /\ last'.arg.position \in {"first", "last"}) =>
       LET parent == last'.arg.parent
           old == Objs(TargetList(data, internalIdMap, parent))
           now == Objs(TargetList(data', internalIdMap', parent))
           new == IF last'.arg.position = "first" THEN Head(now) ELSE now[Len(now)]
       IN /\ last'.ret \in DOMAIN internalIdMap'
          /\ internalIdMap'[last'.ret] = new
          /\ NodeAt(data', new).iid = last'.ret
          /\ new \notin {n.obj : n \in NodesOf(data)}
          /\ now = (IF last'.arg.position = "first" THEN <<new>> \o old
                    ELSE Append(old, new))
          /\ ShapeWithout(Shape(data'), new) = Shape(data)]_vars

\* addNode put a node in front of the children a parent already had.
AddedFirstBelowParent ==
  /\ last.op = "addNode"
  /\ last.ret # NoIid
  /\ last.arg.position = "first"
  /\ last.arg.parent # RootSentinel
  /\ Len(TargetList(data, internalIdMap, last.arg.parent)) >= 2

\* The objects of the sibling list that holds object o, in order.
ListHolding(nodes, o) ==
  IF \E i \in DOMAIN nodes : nodes[i].obj = o THEN Objs(nodes)
  ELSE Objs((CHOOSE n \in NodesOf(nodes) :
               \E i \in DOMAIN n.kids : n.kids[i].obj = o).kids)

\* C14: addNodeAtPosition with a reference id that resolves inserts the new
\* node into the list that holds the reference node, at any depth:
\* immediately before the reference for 'before', immediately after it for
\* 'after'; every other node keeps its order.
AddAtPositionIsAdjacent ==
  [][(last'.op = "addNodeAtPosition" /\ last'.ret # NoIid) =>
       LET ref == internalIdMap[last'.arg.ref]
           new == internalIdMap'[last'.ret]
           now == ListHolding(data', ref)
           at == IndexOf(now, ref)
       IN /\ new \notin {n.obj : n \in NodesOf(data)}
          /\ IF last'.arg.position = "before"
             THEN at > 1 /\ now[at - 1] = new
             ELSE at < Len(now) /\ now[at + 1] = new
          /\ SelectSeq(now, LAMBDA o : o # new) = ListHolding(data, ref)
          /\ ShapeWithout(Shape(data'), new) = Shape(data)]_vars

\* addNodeAtPosition put a node before a reference node that lies below the
\* root level.
AddedNextToNestedReference ==
  /\ last.op = "addNodeAtPosition"
  /\ last.ret # NoIid
  /\ last.arg.position = "before"
  /\ LET ref == internalIdMap[last.arg.ref]
     IN \A i \in DOMAIN data : data[i].obj # ref

\* C15 as stated: an insert with position 'before' or 'after' whose reference
\* cannot be resolved (addNode, which takes no reference, and
\* addNodeAtPosition with an id that is not indexed) does not fail: it returns
\* a new internal id and the new node is the last of the target list.
UnresolvedReferenceAppends ==
  [][/\ (/\ last'.op = "addNode"
         /\ last'.arg.position \in {"before", "after"}
         /\ IsObject(last'.arg.record)
         /\ last'.arg.parent \in DOMAIN internalIdMap \cup {RootSentinel}) =>
          LET now == Objs(TargetList(data', internalIdMap', last'.arg.parent))
          IN /\ last'.ret # NoIid
             /\ now = Append(Objs(TargetList(data, internalIdMap, last'.arg.parent)),
                             internalIdMap'[last'.ret])
     /\ (/\ last'.op = "addNodeAtPosition"
         /\ IsObject(last'.arg.record)
         /\ last'.arg.ref \notin DOMAIN internalIdMap) =>
          /\ last'.ret # NoIid
          /\ Size(data') = Size(data) + Size(<<last'.arg.record>>)]_vars

\* C15: addNode with position 'before' or 'after', which takes no reference,
\* appends the new node at the end of the target list and returns its new
\* internal id; addNodeAtPosition with a reference id that is not indexed
\* returns null and inserts nothing.
AddNodeAppendsAndAddAtPositionRejects ==
  [][/\ (/\ last'.op = "addNode"
         /\ last'.arg.position \in {"before", "after"}
         /\ IsObject(last'.arg.record)
         /\ last'.arg.parent \in DOMAIN internalIdMap \cup {RootSentinel}) =>
          LET now == Objs(TargetList(data', internalIdMap', last'.arg.parent))
          IN /\ last'.ret # NoIid
             /\ now = Append(Objs(TargetList(data, internalIdMap, last'.arg.parent)),
                             internalIdMap'[last'.ret])
             /\ ShapeWithout(Shape(data'), internalIdMap'[last'.ret]) = Shape(data)
     /\ (/\ last'.op = "addNodeAtPosition"
         /\ last'.arg.ref \notin DOMAIN internalIdMap) =>
          /\ last'.ret = NoIid
          /\ data' = data]_vars

\* addNode with position 'before' appended a node to a list that was not
\* empty.
AppendedWithoutReference ==
  /\ last.op = "addNode"
  /\ last.arg.position = "before"
  /\ last.ret # NoIid
  /\ Len(TargetList(data, internalIdMap, last.arg.parent)) >= 2

\* The fields of a node other than its children.
Own(n) == [id |-> n.id, name |-> n.name, iid |-> n.iid]

\* C16: updateNodeByInternalId(id, partial) returns false and changes nothing
\* when the id does not resolve or partial is not an object.  Otherwise it
\* returns true, the node keeps its children list and its internal id even
\* when partial holds `children` or `_internalId`, every other field of
\* partial is written onto the node, its remaining fields and all other
\* nodes stay as they were, and the node sequence of the forest is the same.
UpdateMergesInPlace ==
  [][last'.op = "updateNodeByInternalId" =>
       LET id == last'.arg.id
           upd == last'.arg.data
           ok == id \in DOMAIN internalIdMap /\ IsObject(upd)
       IN /\ last'.ret = ok
          /\ ~ok => UNCHANGED <<data, filteredData, paginatedData, currentPage,
                                totalPages, registry, selectedNodes, expandedNodes>>
          /\ ok =>
               LET o == internalIdMap[id]
                   old == NodeAt(data, o)
                   new == NodeAt(data', o)
               IN /\ Shape(data') = Shape(data)
                  /\ new.kids = old.kids
                  /\ new.iid = old.iid
                  /\ new.id = (IF HasKey(upd.keys, "id") THEN upd.id ELSE old.id)
                  /\ new.name = (IF HasKey(upd.keys, "name") THEN upd.name ELSE old.name)
                  /\ \A m \in NodesOf(data) :
                       m.obj # o => Own(NodeAt(data', m.obj)) = Own(m)]_vars

\* A node with children was updated with a partial that holds `children` and
\* `_internalId`.
UpdatedWithChildrenInPartial ==
  /\ last.op = "updateNodeByInternalId"
  /\ last.ret = TRUE
  /\ HasKey(last.arg.data.keys, "children")
  /\ HasKey(last.arg.data.keys, "_internalId")
  /\ HasKids(NodeAt(data, internalIdMap[last.arg.id]))

\* C17: buildNodeDataMap called again on a forest it has just indexed (by the
\* constructor, by updateData or by a call of its own), with no mutation in
\* between, leaves nodeDataMap, internalIdMap and nodeToInternalIdMap with
\* identical contents, also when the nodes had no `id` and no `_internalId`
\* before the first call.
RebuildIsIdempotent ==
  [][(/\ last.op \in {"constructor", "updateData", "buildNodeDataMap"}
      /\ last'.op = "buildNodeDataMap") =>
       UNCHANGED <<nodeDataMap, internalIdMap, nodeToInternalIdMap>>]_vars

\* The last operation reported failure: null from addNode or
\* addNodeAtPosition, false from removeNodeByInternalId,
\* updateNodeByInternalId or importTreeData.
ReportsFailure(l) ==
  \/ l.op \in {"addNode", "addNodeAtPosition"} /\ l.ret = NoIid
  \/ l.op \in {"removeNodeByInternalId", "updateNodeByInternalId", "importTreeData"}
       /\ l.ret = FALSE

\* C18: an operation that reports failure leaves the forest, the three
\* indexes, filteredData and currentPage exactly as they were before the
\* call, also importTreeData given an array that holds a malformed record.
FailureLeavesStateAsItWas ==
  [][ReportsFailure(last') =>
       UNCHANGED <<data, nodeDataMap, internalIdMap, nodeToInternalIdMap,
                   filteredData, currentPage>>]_vars

\* C19: importTreeData given a value whose top level, after parsing, is not
\* an array, or text that is not valid JSON, returns false and leaves the
\* forest, the indexes, filteredData and currentPage unchanged.
ImportRejectsNonArray ==
  [][(/\ last'.op = "importTreeData"
      /\ (last'.arg.kind = "badtext" \/ ~last'.arg.isArray)) =>
       /\ last'.ret = FALSE
       /\ UNCHANGED <<data, nodeDataMap, internalIdMap, nodeToInternalIdMap,
                      filteredData, currentPage>>]_vars

\* JSON text that parses to a value that is no array was rejected while the
\* tree held a forest.
RejectedNonArrayText ==
  /\ last.op = "importTreeData"
  /\ last.arg.kind = "text"
  /\ ~last.arg.isArray
  /\ last.ret = FALSE
  /\ data # <<>>

RECURSIVE Fields(_)
\* The shape of a forest with the fields the caller gave each node.
Fields(nodes) ==
  [i \in DOMAIN nodes |->
     [id |-> nodes[i].id, name |-> nodes[i].name, kids |-> Fields(nodes[i].kids)]]

\* C20: export with the internal ids stripped followed by importTreeData of
\* the exported text gives a forest with the same shape, the same sibling
\* order and the same caller fields on every node; only the internal ids may
\* differ, and every imported node has one, indexed to it.
ExportImportRoundTrip ==
  [][(/\ last.op = "exportTreeData"
      /\ ~last.arg.includeInternalIds
      /\ last'.op = "importTreeData"
      /\ last'.arg.value = last.ret) =>
       /\ last'.ret = TRUE
       /\ Fields(data') =
            Fields(IF last.arg.includeOnlyVisible THEN filteredData ELSE data)
       /\ \A n \in NodesOf(data') :
            /\ n.iid # NoIid
            /\ n.iid \in DOMAIN internalIdMap'
            /\ internalIdMap'[n.iid] = n.obj]_vars

\* The stripped export of a forest with nested nodes that a mutator call had
\* changed was imported again.
ImportedStrippedExport ==
  /\ last.op = "importTreeData"
  /\ last.ret = TRUE
  /\ last.arg.value \notin Forests
  /\ last.arg.value = cleanDataForExport(last.arg.value)
  /\ \E n \in NodesOf(data) : HasKids(n)

\* C21: an export with includeInternalIds false produces records none of
\* which, at any depth, has an `_internalId`; an export with either option
\* leaves the forest as it was, every node with its internal id and its
\* children, and leaves the three indexes unchanged.
ExportStripsAndLeavesForest ==
  [][last'.op = "exportTreeData" =>
       /\ ~last'.arg.includeInternalIds =>
            \A n \in NodesOf(last'.ret) :
              n.iid = NoIid /\ ~HasKey(n.keys, "_internalId")
       /\ UNCHANGED <<data, nodeDataMap, internalIdMap, nodeToInternalIdMap>>
       /\ \A n \in NodesOf(data') : n.iid # NoIid]_vars

\* A forest with nodes three levels deep was exported without internal ids.
ExportedNestedForestStripped ==
  /\ last.op = "exportTreeData"
  /\ ~last.arg.includeInternalIds
  /\ \E n \in NodesOf(last.ret) : \E i \in DOMAIN n.kids : HasKids(n.kids[i])

\* The page with number p of a list under page size ps.
PageOf(list, ps, p) ==
  [i \in 1..Max(0, Min(p * ps, Len(list)) - (p - 1) * ps) |-> list[(p - 1) * ps + i]]

RECURSIVE Concat(_, _, _)
\* The pages 1..p of a list, one after the other.
Concat(list, ps, p) ==
  IF p = 0 THEN <<>> ELSE Concat(list, ps, p - 1) \o PageOf(list, ps, p)

\* C22: with pagination enabled the page shown is exactly the top-level items
\* of filteredData at the indexes [(currentPage-1)*pageSize,
\* currentPage*pageSize), in order, each with all of its children; the pages
\* 1..totalPages in order make up the top-level sequence, no item missing or
\* repeated.
PageIsSliceOfFilteredData ==
  (showPagination /\ pageSize > 0) =>
    /\ paginatedData = PageOf(filteredData, pageSize, currentPage)
    /\ Concat(filteredData, pageSize, totalPages) = filteredData

\* C23: handleSearch with an empty term leaves expandedNodes unchanged;
\* handleSearch with a non-empty term adds to expandedNodes the natural key of
\* every node present in the filtered result, matches and retained ancestors,
\* adds no other key and removes none.
SearchExpandsResult ==
  [][last'.op = "handleSearch" =>
       IF searchTerm' = <<>>
       THEN expandedNodes' = expandedNodes
       ELSE expandedNodes' =
              expandedNodes \cup {NodeKey(n) : n \in NodesOf(filteredData')}]_vars

\* A search with a non-empty term retained a node below a retained ancestor
\* while expandedNodes held a key of a node the result does not show.
SearchExpandedNestedResult ==
  /\ last.op = "handleSearch"
  /\ searchTerm # <<>>
  /\ \E n \in NodesOf(filteredData) : HasKids(n)
  /\ \E k \in expandedNodes : \A n \in NodesOf(filteredData) : NodeKey(n) # k

\* The operations of the mutator and the forest replacements.
MutatorOps ==
  {"addNode", "addNodeAtPosition", "removeNodeByInternalId", "updateNodeByInternalId",
   "updateData", "importTreeData"}

\* C24: after every mutator operation and every forest replacement the
\* derived view is recomputed from the new forest: filteredData is
\* filterNodes(data, searchTerm) for the stored search term and the page is
\* the slice for the clamped currentPage, also while a search term is set.
ViewRecomputedAfterMutation ==
  [][last'.op \in MutatorOps =>
       /\ filteredData' = filterNodes(data', searchTerm')
       /\ paginatedData' =
            getPaginatedData(filterNodes(data', searchTerm'), pageSize',
                             currentPage', <<>>, 1).paginatedData
       /\ currentPage' <= Max(1, Ceil(Len(filterNodes(data', searchTerm')), pageSize'))]_vars

\* C25: after any sequence of operations every key in selectedNodes and in
\* expandedNodes is the current natural key of a node reachable from the
\* forest.
TrackerKeysNeverDangle ==
  \A k \in selectedNodes \cup expandedNodes :
    \E n \in NodesOf(data) : NodeKey(n) = k

\* C26: getNodeByInternalId, getInternalId and hasInternalId called with an
\* absent, empty or unknown id or node return null, respectively false;
\* getNodesByInternalIds returns the entries that resolve, in the order
\* asked, and an empty list for an argument that is no array; no lookup
\* changes any state.
LookupsReportNotFound ==
  [][last'.op \in {"getNodeByInternalId", "getNodesByInternalIds", "hasInternalId",
                   "getInternalId"} =>
       /\ UNCHANGED state
       /\ LET arg == last'.arg
              ret == last'.ret
          IN CASE last'.op = "getNodeByInternalId" ->
                    IF arg \in DOMAIN internalIdMap THEN ret = internalIdMap[arg]
                    ELSE ret = 0
               [] last'.op = "hasInternalId" ->
                    ret = (arg \in DOMAIN internalIdMap)
               [] last'.op = "getInternalId" ->
                    IF arg \in DOMAIN nodeToInternalIdMap
                    THEN ret = nodeToInternalIdMap[arg]
                    ELSE ret = NoIid
               [] OTHER ->
                    IF ~arg.isArray THEN ret = <<>>
                    ELSE /\ \A j \in DOMAIN ret :
                              /\ ret[j].internalId \in DOMAIN internalIdMap
                              /\ ret[j].node = internalIdMap[ret[j].internalId]
                         /\ [j \in DOMAIN ret |-> ret[j].internalId] =
                              SelectSeq(arg.value,
                                        LAMBDA i : i \in DOMAIN internalIdMap)]_vars

\* getNodesByInternalIds was asked for an unknown and a known id and
\* returned the one entry that resolves.
LookedUpMixedIds ==
  /\ last.op = "getNodesByInternalIds"
  /\ last.arg.isArray
  /\ Len(last.arg.value) = 2
  /\ Len(last.ret) = 1

\* A node reduced to the fields its caller gave it, without `children` and
\* `_internalId`.
OwnFields(n) ==
  [n EXCEPT !.keys = SelectSeq(@, LAMBDA k : k \notin {"children", UndefChildren,
                                                       "_internalId"}),
            !.kids = <<>>, !.iid = NoIid]

\* C27: the derived natural key of a node without `id` depends only on the
\* node's own fields other than `children` and `_internalId`: the key the
\* node has when it is rendered, selected or cleaned up is the key of these
\* fields, and it is the key under which buildNodeDataMap indexed the node.
DerivedKeyOfOwnFields ==
  \A n \in NodesOf(data) :
    n.id = NoId =>
      /\ NodeKey(n) = generateNodeId(OwnFields(n))
      /\ NodeKey(n) \in DOMAIN nodeDataMap
      /\ nodeDataMap[NodeKey(n)] = n.obj

\* The nodes of the forest that carry the natural key k, in depth-first
\* pre-order.
Carrying(k) == SelectSeq(Flat(data), LAMBDA n : NodeKey(n) = k)

\* C28: when two or more nodes of the forest have the same natural key,
\* nodeDataMap maps the key to the one visited last in depth-first pre-order,
\* and each of the nodes has its own internal id, distinct from the others',
\* in internalIdMap and nodeToInternalIdMap.
CollidingKeysIndexLastNode ==
  \A n \in NodesOf(data) :
    LET same == Carrying(NodeKey(n))
    IN Len(same) >= 2 =>
         /\ NodeKey(n) \in DOMAIN nodeDataMap
         /\ nodeDataMap[NodeKey(n)] = same[Len(same)].obj
         /\ \A i, j \in DOMAIN same :
              /\ same[i].obj \in DOMAIN nodeToInternalIdMap
              /\ same[i].iid \in DOMAIN internalIdMap
              /\ internalIdMap[same[i].iid] = same[i].obj
              /\ nodeToInternalIdMap[same[i].obj] = same[i].iid
              /\ i # j => same[i].iid # same[j].iid

\* C29: removeNodeByInternalId calls onNodeRemove exactly once when it
\* returns true and never when it returns false.  When the callback runs,
\* the node it reports and the node's descendants are absent from the
\* forest, from the three indexes and from selectedNodes and expandedNodes,
\* the indexes agree with the forest, and filteredData is the forest filtered
\* by the stored search term.
CallbackSeesCompletedRemoval ==
  last.op = "removeNodeByInternalId" =>
    /\ Len(last.callbacks) = (IF last.ret THEN 1 ELSE 0)
    /\ \A c \in DOMAIN last.callbacks :
         LET node == last.callbacks[c].node
             gone == {node} \cup Descendants(node)
         IN /\ last.callbacks[c].internalId = last.arg.id
            /\ node.iid = last.arg.id
            /\ \A n \in gone :
                 /\ n.obj \notin {m.obj : m \in NodesOf(data)}
                 /\ \A k \in DOMAIN nodeDataMap : nodeDataMap[k] # n.obj
                 /\ n.iid \notin DOMAIN internalIdMap
                 /\ \A i \in DOMAIN internalIdMap : internalIdMap[i] # n.obj
                 /\ n.obj \notin DOMAIN nodeToInternalIdMap
                 /\ NodeKey(n) \notin selectedNodes \cup expandedNodes
            /\ IndexesAgreeWithForest
            /\ filteredData = filterNodes(data, searchTerm)

\* onNodeRemove ran for the removal of a node with children while a search
\* term was set.
CallbackRanUnderSearch ==
  /\ last.op = "removeNodeByInternalId"
  /\ Len(last.callbacks) = 1
  /\ searchTerm # <<>>
  /\ HasKids(last.callbacks[1].node)

RECURSIVE Split(_, _)
\* The pieces of a text between the occurrences of a separator.
Split(text, sep) ==
  IF \A i \in DOMAIN text : text[i] # sep THEN <<text>>
  ELSE LET at == CHOOSE i \in DOMAIN text :
                   text[i] = sep /\ \A j \in 1..(i - 1) : text[j] # sep
       IN <<SubSeq(text, 1, at - 1)>> \o Split(SubSeq(text, at + 1, Len(text)), sep)

RECURSIVE Placed(_, _, _)
\* The nodes of a forest in depth-first pre-order, each with its depth and
\* the display value of its parent.
Placed(nodes, depth, parentName) ==
  IF nodes = <<>> THEN <<>>
  ELSE <<[node |-> Head(nodes), depth |-> depth, parentName |-> parentName]>>
         \o Placed(Head(nodes).kids, depth + 1, Head(nodes).name)
         \o Placed(Tail(nodes), depth, parentName)

Quoted(text) == <<"\"">> \o text \o <<"\"">>

\* C30: the CSV text is the header row followed by one row per node of the
\* forest in depth-first pre-order.  A row has five columns: the node's
\* depth, the display value of its parent (empty for a root) and its own
\* display value, both without their commas, a flag that is true exactly
\* when the node has a non-empty children list, and the number of its
\* direct children.
CsvHasOneRowPerNode ==
  last.op = "exportTreeAsCSV" =>
    LET lines == Split(last.ret, "\n")
        placed == Placed(data, 0, <<>>)
    IN /\ Len(lines) = Len(placed) + 2
       /\ lines[1] \o <<"\n">> = CsvHeader
       /\ lines[Len(lines)] = <<>>
       /\ \A i \in DOMAIN placed :
            LET p == placed[i]
                column == Split(lines[i + 1], ",")
            IN /\ Len(column) = 5
               /\ column[1] = Decimal(p.depth)
               /\ column[2] = Quoted(StripCommas(p.parentName))
               /\ column[3] = Quoted(StripCommas(p.node.name))
               /\ (column[4] = <<"t", "r", "u", "e">>) <=> HasKids(p.node)
               /\ column[5] = Decimal(Len(p.node.kids))

\* A forest was converted that has a node at depth 2, a parent with a comma
\* in its display value and a node with an empty children list.
ConvertedNestedForestWithCommas ==
  /\ last.op = "exportTreeAsCSV"
  /\ \E i \in DOMAIN Placed(data, 0, <<>>) :
       Placed(data, 0, <<>>)[i].depth = 2
  /\ \E n \in NodesOf(data) :
       /\ HasKids(n)
       /\ \E j \in DOMAIN n.name : n.name[j] = ","
  /\ \E n \in NodesOf(data) : HasKey(n.keys, "children") /\ ~HasKids(n)

RECURSIVE Plain(_)
\* The records of a forest without the identities of their objects.
Plain(nodes) == [i \in DOMAIN nodes |-> [nodes[i] EXCEPT !.obj = 0, !.kids = Plain(@)]]

\* C31: after a successful addNode or addNodeAtPosition the record the
\* caller handed in reads as it did before the call, its own properties and
\* every object under its `children`, and a later write of the caller on one
\* of those objects changes no node of the forest.
CallersRecordIsNotAliased ==
  [][/\ (last'.op \in {"addNode", "addNodeAtPosition"} /\ last'.ret # NoIid) =>
          Plain(NodeAt(data', nextObj).kids) = last'.arg.record.kids
     /\ last'.op = "callerWrites" => data' = data]_vars

\* C32: with pagination enabled and pageSize > 0 the current page holds at
\* most pageSize items and is empty only when filteredData is empty.
PageIsFilledWithinPageSize ==
  (showPagination /\ pageSize > 0) =>
    /\ Len(paginatedData) <= pageSize
    /\ paginatedData = <<>> => filteredData = <<>>

\* C33: a cascade toggle on a node shown under a search term changes
\* selectedNodes as the same toggle does without one: it adds, or removes,
\* the keys of the node and of all its descendants in the forest, those the
\* filter pruned from the view included.
FilteredToggleActsOnForest ==
  [][\A n \in Rendered :
       (last'.op = "toggleSelection" /\ last'.ret = n.obj /\ searchTerm # <<>>) =>
         LET node == ForestNode(n)
             nodeId == NodeKey(node)
         IN selectedNodes' =
              (IF nodeId \in selectedNodes
               THEN deselectNodeAndChildren(node, nodeId, selectedNodes)
               ELSE selectNodeAndChildren(node, nodeId, selectedNodes))]_vars

\* C34: a successful removeNodeByInternalId leaves every node that remains
\* in the forest selected exactly when it was selected before, and expanded
\* exactly when it was expanded before, also when a remaining node has the
\* natural key of a removed one.
RemovalKeepsMarksOfRemainingNodes ==
  [][(last'.op = "removeNodeByInternalId" /\ last'.ret) =>
       \A n \in NodesOf(data') :
         /\ (NodeKey(n) \in selectedNodes') = (NodeKey(n) \in selectedNodes)
         /\ (NodeKey(n) \in expandedNodes') = (NodeKey(n) \in expandedNodes)]_vars

\* C35: without checkboxes and with multiSelect false selectedNodes holds at
\* most one key in every state, and right after selectNode(k) it is {k}; with
\* multiSelect true selectNode(k) adds k to the keys held before and removes
\* none.
SingleSelectHoldsOneKey ==
  /\ (~multiSelect /\ ~showCheckboxes) => Cardinality(selectedNodes) <= 1
  /\ last.op = "selectNode" =>
       selectedNodes = (IF multiSelect THEN last.arg.before ELSE {})
                         \cup {last.arg.nodeId}

\* In single-select mode a click selected a node while another key was
\* selected.
ClickReplacedSelection ==
  /\ last.op = "selectNode"
  /\ ~multiSelect
  /\ last.arg.before # {}
  /\ last.arg.nodeId \notin last.arg.before
  /\ selectedNodes = {last.arg.nodeId}

====
